---- MODULE Spec2Model ----
(***************************************************************************)
(* SelectionSetManager (src/SelectionSetManager/managers.py): the registry *)
(* of selection sets and parent groups, its mutators, its selection calls  *)
(* and its JSON export and import; and the widgets that SelectionSetUI     *)
(* (ui.py) and SelectionSetWorkspace (workspace.py) keep over it.          *)
(* Python dicts are functions over their key set, Python lists are         *)
(* sequences, None is the value None.  background_image is not modelled:   *)
(* no registry map depends on it.                                          *)
(***************************************************************************)
EXTENDS Integers, Sequences, FiniteSets, TLC

\* ---------------------------------------------------------------- bounds
\* at most this many sets / groups are created by create_set / create_parent_group
MaxSets == 2
MaxGroups == 2
\* create_set is not called once a coordinate would pass this value
MaxCoord == 40
\* add_set_to_group is not called once a member list would grow past this length
MaxMembers == 2

\* ------------------------------------------------------------- universes
None == "<None>"

\* the name handed to create_set and to create_parent_group
SetBase == "s"
GroupBase == "g"

\* the scene objects that exist (cmds.objExists); "gone" names one that does not
SceneObjects == {"o1", "o2"}

Channels == {"tx", "ty", "tz", "rx", "ry", "rz"}

\* the attribute paths that exist: o1 is a transform, o2 has a ty attribute only
SceneAttrs == {"o1.tx", "o1.ty", "o1.tz", "o1.rx", "o1.ry", "o1.rz", "o2.ty"}

\* cmds.objExists
objExists(obj) == obj \in SceneObjects \cup SceneAttrs

\* ------------------------------------------------------ dict/list helpers
EmptyDict == [k \in {} |-> None]

\* d[k] = v
Put(d, k, v) == [x \in (DOMAIN d) \cup {k} |-> IF x = k THEN v ELSE d[x]]

\* del d[k]
Del(d, k) == [x \in (DOMAIN d) \ {k} |-> d[x]]

\* d after d[k] = e[k] for every key k of e
Update(d, e) == [k \in (DOMAIN d) \cup (DOMAIN e) |-> IF k \in DOMAIN e THEN e[k] ELSE d[k]]

\* d.get(k)
Get(d, k) == IF k \in DOMAIN d THEN d[k] ELSE None

\* x in list
InList(l, x) == \E i \in 1..Len(l) : l[i] = x

\* index of the first occurrence of x in l (x is in l)
FirstIndex(l, x) == CHOOSE i \in 1..Len(l) : l[i] = x /\ \A j \in 1..(i-1) : l[j] # x

\* list.remove(x): drops the first occurrence only
ListRemove(l, x) ==
    IF InList(l, x)
    THEN LET i == FirstIndex(l, x)
         IN  SubSeq(l, 1, i-1) \o SubSeq(l, i+1, Len(l))
    ELSE l

\* the number of occurrences of x in l
Count(l, x) == Cardinality({i \in 1..Len(l) : l[i] = x})

\* Python truthiness of a name-or-None value: None and "" are falsy
Truthy(x) == x # None /\ x # ""

\* f"{name}_{counter}"
Suffixed(name, counter) == name \o "_" \o ToString(counter)

VARIABLES
    sets,               \* self.sets: name -> list of objects
    set_positions,      \* self.set_positions: name -> <<x, y>>
    set_colors,         \* self.set_colors
    set_sizes,          \* self.set_sizes
    set_transparency,   \* self.set_transparency
    set_parents,        \* self.set_parents: name -> parent name or None
    parent_groups,      \* self.parent_groups: group -> list of set names
    group_positions,
    group_colors,
    group_sizes,
    group_transparency,
    active_channels,    \* self.active_channels: channel -> BOOLEAN
    hung,               \* TRUE once a call has entered a loop it never leaves
    last,               \* the last call: [op, a1, a2, ret]
    pre,                \* the registry as it was when the last call started
    out,                \* what the last call handed back: [objects, host]
    set_widgets,        \* workspace.set_widgets: name -> [pos, size] of the widget
    group_widgets,      \* workspace.group_widgets: name -> keys of child_widgets
    pre_widgets         \* set_widgets as it was when the last call started

regVars == <<sets, set_positions, set_colors, set_sizes, set_transparency,
             set_parents, parent_groups, group_positions, group_colors,
             group_sizes, group_transparency, active_channels>>

vars == <<sets, set_positions, set_colors, set_sizes, set_transparency,
          set_parents, parent_groups, group_positions, group_colors,
          group_sizes, group_transparency, active_channels, hung, last, pre, out,
          set_widgets, group_widgets, pre_widgets>>

\* the widgets of the workspace
uiVars == <<set_widgets, group_widgets, pre_widgets>>

\* the registry as one record
Registry ==
    [sets |-> sets, set_positions |-> set_positions, set_colors |-> set_colors,
     set_sizes |-> set_sizes, set_transparency |-> set_transparency,
     set_parents |-> set_parents, parent_groups |-> parent_groups,
     group_positions |-> group_positions, group_colors |-> group_colors,
     group_sizes |-> group_sizes, group_transparency |-> group_transparency,
     active_channels |-> active_channels]

Call(op, a1, a2, ret) == [op |-> op, a1 |-> a1, a2 |-> a2, ret |-> ret]

\* out of a call that returns no list and makes no cmds.select,
\* cmds.inViewMessage or cmds.warning call that the selection code makes
NoOutput == [objects |-> <<>>, host |-> <<>>]

\* bookkeeping of a call that returns: objects is the list it returns (<<>>
\* when it returns none), host the calls it makes to maya.cmds, in order
Noted(op, a1, a2, ret, objects, host) ==
    /\ last' = Call(op, a1, a2, ret)
    /\ pre' = Registry
    /\ hung' = FALSE
    /\ out' = [objects |-> objects, host |-> host]

\* a call made on the manager itself returns: no widget is touched
Done(op, a1, a2, ret, objects, host) ==
    /\ Noted(op, a1, a2, ret, objects, host)
    /\ UNCHANGED uiVars

\* bookkeeping of a registry call that returns
Returns(op, a1, a2, ret) == Done(op, a1, a2, ret, <<>>, <<>>)

\* __init__
Init ==
    /\ sets = EmptyDict
    /\ set_positions = EmptyDict
    /\ set_colors = EmptyDict
    /\ set_sizes = EmptyDict
    /\ set_transparency = EmptyDict
    /\ set_parents = EmptyDict
    /\ parent_groups = EmptyDict
    /\ group_positions = EmptyDict
    /\ group_colors = EmptyDict
    /\ group_sizes = EmptyDict
    /\ group_transparency = EmptyDict
    /\ active_channels = [c \in Channels |-> TRUE]
    /\ hung = FALSE
    /\ last = Call("init", None, None, None)
    /\ pre = Registry
    /\ out = NoOutput
    /\ set_widgets = EmptyDict
    /\ group_widgets = EmptyDict
    /\ pre_widgets = EmptyDict

\* the set names create_set can produce within MaxSets, and the group names
\* create_parent_group can produce within MaxGroups
CreatedNames == {SetBase} \cup {Suffixed(SetBase, k) : k \in 1..(MaxSets - 1)}
AllGroups == {GroupBase} \cup {Suffixed(GroupBase, k) : k \in 1..(MaxGroups - 1)}

\* the set names the calls are made with: the created names, and with the
\* empty string where the parent relation is explored
GroupNames == CreatedNames
HierNames == CreatedNames \cup {""}

\* what cmds.ls(selection=True, long=True) can return
Selections == {<<>>, <<"o2", "o1">>}

\* the largest element of a non-empty set of integers
Max(S) == CHOOSE m \in S : \A x \in S : x <= m

\* the while loop of create_set / create_parent_group / get_unique_name
RECURSIVE UniqueFrom(_, _, _, _)
UniqueFrom(name, candidate, counter, existing) ==
    IF candidate \in existing
    THEN UniqueFrom(name, Suffixed(name, counter), counter + 1, existing)
    ELSE candidate

NameAsGiven(base_name, existing_names) == base_name

get_unique_name(base_name, existing_names) ==
    UniqueFrom(base_name, base_name, 1, existing_names)

\* [last_x + 20, last_y + 20] over the positions of a non-empty dict
OffsetFromLast(positions) ==
    << Max({positions[k][1] : k \in DOMAIN positions}) + 20,
       Max({positions[k][2] : k \in DOMAIN positions}) + 20 >>

\* the position create_set gives a new set
NewSetPosition ==
    IF DOMAIN set_positions # {} THEN OffsetFromLast(set_positions) ELSE <<20, 20>>

DefaultSetColor == <<70, 70, 70>>
DefaultSetSize == <<200, 150>>
DefaultTransparency == 180
DefaultGroupColor == <<100, 100, 60>>
DefaultGroupSize == <<300, 200>>

\* ------------------------------------------------------------ create_set
create_set(name, selection) ==
    /\ ~hung
    /\ IF selection = <<>>
       THEN /\ UNCHANGED regVars
            /\ Returns("create_set", name, None, None)
       ELSE LET set_name == get_unique_name(name, DOMAIN sets)
                position == NewSetPosition
            IN  /\ Cardinality(DOMAIN sets) < MaxSets
                /\ position[1] <= MaxCoord /\ position[2] <= MaxCoord
                /\ sets' = Put(sets, set_name, selection)
                /\ set_positions' = Put(set_positions, set_name, position)
                /\ set_colors' = Put(set_colors, set_name, DefaultSetColor)
                /\ set_sizes' = Put(set_sizes, set_name, DefaultSetSize)
                /\ set_transparency' = Put(set_transparency, set_name, DefaultTransparency)
                /\ set_parents' = Put(set_parents, set_name, None)
                /\ UNCHANGED <<parent_groups, group_positions, group_colors,
                               group_sizes, group_transparency, active_channels>>
                /\ Returns("create_set", name, None, set_name)

\* ------------------------------------------------------------ rename_set
\* a dict entry moved from old_name to new_name when old_name is a key
MoveKey(d, old_name, new_name) ==
    IF old_name \in DOMAIN d THEN Del(Put(d, new_name, d[old_name]), old_name) ELSE d

\* set_parents after rename_set: the entry is moved, then every parent
\* pointer equal to old_name is rewritten
RenameParents(parents, old_name, new_name) ==
    LET moved == MoveKey(parents, old_name, new_name)
    IN  [c \in DOMAIN moved |-> IF moved[c] = old_name THEN new_name ELSE moved[c]]

\* one member list after rename_set: sets.remove(old_name); sets.append(new_name)
RenameInList(members, old_name, new_name) ==
    IF InList(members, old_name)
    THEN Append(ListRemove(members, old_name), new_name)
    ELSE members

RenameInGroups(groups, old_name, new_name) ==
    [g \in DOMAIN groups |-> RenameInList(groups[g], old_name, new_name)]

\* a rename that never finds the new name taken
NameNeverTaken(new_name, names) == FALSE

\* `new_name in self.sets` of rename_set, `new_name in self.parent_groups` of
\* rename_parent_group
NameTaken(new_name, names) == new_name \in names

rename_set(old_name, new_name) ==
    /\ ~hung
    /\ IF old_name \notin DOMAIN sets \/ NameTaken(new_name, DOMAIN sets)
       THEN /\ UNCHANGED regVars
            /\ Returns("rename_set", old_name, new_name, "False")
       ELSE /\ sets' = Del(Put(sets, new_name, sets[old_name]), old_name)
            /\ set_positions' = MoveKey(set_positions, old_name, new_name)
            /\ set_colors' = MoveKey(set_colors, old_name, new_name)
            /\ set_sizes' = MoveKey(set_sizes, old_name, new_name)
            /\ set_transparency' = MoveKey(set_transparency, old_name, new_name)
            /\ set_parents' = RenameParents(set_parents, old_name, new_name)
            /\ parent_groups' = RenameInGroups(parent_groups, old_name, new_name)
            /\ UNCHANGED <<group_positions, group_colors, group_sizes,
                           group_transparency, active_channels>>
            /\ Returns("rename_set", old_name, new_name, "True")

\* ------------------------------------------------- remove_set_from_group
\* parent_groups after remove_set_from_group(set_name, group_name), given the
\* sets dict the call sees; group_name = None removes from all groups
RemoveFromGroups(all_sets, groups, set_name, group_name) ==
    IF set_name \notin DOMAIN all_sets THEN groups
    ELSE IF group_name # None
    THEN IF group_name \notin DOMAIN groups THEN groups
         ELSE [groups EXCEPT ![group_name] = ListRemove(@, set_name)]
    ELSE [g \in DOMAIN groups |-> ListRemove(groups[g], set_name)]

\* the value remove_set_from_group returns
RemoveFromGroupsRet(all_sets, groups, set_name, group_name) ==
    IF set_name \notin DOMAIN all_sets THEN "False"
    ELSE IF group_name # None /\ group_name \notin DOMAIN groups THEN "False"
    ELSE "True"

remove_set_from_group(set_name, group_name) ==
    /\ ~hung
    /\ parent_groups' = RemoveFromGroups(sets, parent_groups, set_name, group_name)
    /\ UNCHANGED <<sets, set_positions, set_colors, set_sizes, set_transparency,
                   set_parents, group_positions, group_colors, group_sizes,
                   group_transparency, active_channels>>
    /\ Returns("remove_set_from_group", set_name, group_name,
               RemoveFromGroupsRet(sets, parent_groups, set_name, group_name))

\* ------------------------------------------------------------ delete_set
\* delete_set without the loop that clears the children's parent pointers
DeleteParentsKeepingPointers(parents, name) == Del(parents, name)

\* set_parents after delete_set: the entry is dropped, then every parent
\* pointer equal to name is set to None
DeleteParents(parents, name) ==
    LET dropped == Del(parents, name)
    IN  [c \in DOMAIN dropped |-> IF dropped[c] = name THEN None ELSE dropped[c]]

\* parent_groups after delete_set: self.remove_set_from_group(name) runs
\* after name has been deleted from self.sets
DeleteFromGroups(all_sets, groups, name) ==
    RemoveFromGroups(Del(all_sets, name), groups, name, None)

delete_set(name) ==
    /\ ~hung
    /\ IF name \in DOMAIN sets
       THEN /\ sets' = Del(sets, name)
            /\ set_positions' = Del(set_positions, name)
            /\ set_colors' = Del(set_colors, name)
            /\ set_sizes' = Del(set_sizes, name)
            /\ set_transparency' = Del(set_transparency, name)
            /\ set_parents' = DeleteParents(set_parents, name)
            /\ parent_groups' = DeleteFromGroups(sets, parent_groups, name)
            /\ UNCHANGED <<group_positions, group_colors, group_sizes,
                           group_transparency, active_channels>>
            /\ Returns("delete_set", name, None, "True")
       ELSE /\ UNCHANGED regVars
            /\ Returns("delete_set", name, None, "False")

\* ------------------------------------------------------------ set_parent
\* the while loop of would_create_circular_reference: "yes" when child_name
\* is met, "no" when the chain ends, "diverges" when the loop has visited
\* more sets than set_parents has keys (it is then inside a cycle that does
\* not contain child_name and never leaves it)
RECURSIVE AncestorWalk(_, _, _, _)
AncestorWalk(child_name, ancestor, parents, fuel) ==
    IF ~Truthy(ancestor) THEN "no"
    ELSE IF ancestor = child_name THEN "yes"
    ELSE IF fuel = 0 THEN "diverges"
    ELSE AncestorWalk(child_name, Get(parents, ancestor), parents, fuel - 1)

would_create_circular_reference(child_name, new_parent_name) ==
    AncestorWalk(child_name, new_parent_name, set_parents,
                 Cardinality(DOMAIN set_parents) + 1)

set_parent(child_name, parent_name) ==
    /\ ~hung
    /\ IF child_name \notin DOMAIN sets
       THEN /\ UNCHANGED regVars
            /\ Returns("set_parent", child_name, parent_name, "False")
       ELSE IF Truthy(parent_name) /\ parent_name \notin DOMAIN sets
       THEN /\ UNCHANGED regVars
            /\ Returns("set_parent", child_name, parent_name, "False")
       ELSE IF Truthy(parent_name)
               /\ would_create_circular_reference(child_name, parent_name) = "yes"
       THEN /\ UNCHANGED regVars
            /\ Returns("set_parent", child_name, parent_name, "False")
       ELSE IF Truthy(parent_name)
               /\ would_create_circular_reference(child_name, parent_name) = "diverges"
       THEN /\ UNCHANGED regVars
            /\ last' = Call("set_parent", child_name, parent_name, "hang")
            /\ pre' = Registry
            /\ hung' = TRUE
            /\ out' = NoOutput
            /\ UNCHANGED uiVars
       ELSE /\ set_parents' = Put(set_parents, child_name, parent_name)
            /\ UNCHANGED <<sets, set_positions, set_colors, set_sizes,
                           set_transparency, parent_groups, group_positions,
                           group_colors, group_sizes, group_transparency,
                           active_channels>>
            /\ Returns("set_parent", child_name, parent_name, "True")

\* --------------------------------------------------- create_parent_group
\* the position create_parent_group gives a new group
NewGroupPosition ==
    IF DOMAIN group_positions # {} THEN OffsetFromLast(group_positions)
    ELSE IF DOMAIN set_positions # {} THEN OffsetFromLast(set_positions)
    ELSE <<20, 20>>

create_parent_group(name) ==
    LET group_name == get_unique_name(name, DOMAIN parent_groups)
        position == NewGroupPosition
    IN  /\ ~hung
        /\ Cardinality(DOMAIN parent_groups) < MaxGroups
        /\ position[1] <= MaxCoord /\ position[2] <= MaxCoord
        /\ parent_groups' = Put(parent_groups, group_name, <<>>)
        /\ group_positions' = Put(group_positions, group_name, position)
        /\ group_colors' = Put(group_colors, group_name, DefaultGroupColor)
        /\ group_sizes' = Put(group_sizes, group_name, DefaultGroupSize)
        /\ group_transparency' = Put(group_transparency, group_name, DefaultTransparency)
        /\ UNCHANGED <<sets, set_positions, set_colors, set_sizes,
                       set_transparency, set_parents, active_channels>>
        /\ Returns("create_parent_group", name, None, group_name)

\* ------------------------------------------------------ add_set_to_group
\* parent_groups after add_set_to_group: one occurrence of set_name is
\* removed from every member list that has it, then set_name is appended to
\* group_name's list unless it is still there
AddToGroups(groups, set_name, group_name) ==
    LET removed == [g \in DOMAIN groups |-> ListRemove(groups[g], set_name)]
    IN  [removed EXCEPT ![group_name] =
            IF InList(@, set_name) THEN @ ELSE Append(@, set_name)]

add_set_to_group(set_name, group_name) ==
    /\ ~hung
    /\ IF set_name \notin DOMAIN sets \/ group_name \notin DOMAIN parent_groups
       THEN /\ UNCHANGED regVars
            /\ Returns("add_set_to_group", set_name, group_name, "False")
       ELSE /\ Len(AddToGroups(parent_groups, set_name, group_name)[group_name]) <= MaxMembers
            /\ parent_groups' = AddToGroups(parent_groups, set_name, group_name)
            /\ UNCHANGED <<sets, set_positions, set_colors, set_sizes,
                           set_transparency, set_parents, group_positions,
                           group_colors, group_sizes, group_transparency,
                           active_channels>>
            /\ Returns("add_set_to_group", set_name, group_name, "True")

\* --------------------------------------------------- rename_parent_group
rename_parent_group(old_name, new_name) ==
    /\ ~hung
    /\ IF old_name \notin DOMAIN parent_groups \/ NameTaken(new_name, DOMAIN parent_groups)
       THEN /\ UNCHANGED regVars
            /\ Returns("rename_parent_group", old_name, new_name, "False")
       ELSE /\ parent_groups' = Del(Put(parent_groups, new_name, parent_groups[old_name]), old_name)
            /\ group_positions' = MoveKey(group_positions, old_name, new_name)
            /\ group_colors' = MoveKey(group_colors, old_name, new_name)
            /\ group_sizes' = MoveKey(group_sizes, old_name, new_name)
            /\ group_transparency' = MoveKey(group_transparency, old_name, new_name)
            /\ UNCHANGED <<sets, set_positions, set_colors, set_sizes,
                           set_transparency, set_parents, active_channels>>
            /\ Returns("rename_parent_group", old_name, new_name, "True")

\* --------------------------------------------------- delete_parent_group
delete_parent_group(name) ==
    /\ ~hung
    /\ IF name \notin DOMAIN parent_groups
       THEN /\ UNCHANGED regVars
            /\ Returns("delete_parent_group", name, None, "False")
       ELSE /\ parent_groups' = Del(parent_groups, name)
            /\ group_positions' = Del(group_positions, name)
            /\ group_colors' = Del(group_colors, name)
            /\ group_sizes' = Del(group_sizes, name)
            /\ group_transparency' = Del(group_transparency, name)
            /\ UNCHANGED <<sets, set_positions, set_colors, set_sizes,
                           set_transparency, set_parents, active_channels>>
            /\ Returns("delete_parent_group", name, None, "True")

\* ------------------------------------------------ update_group_* / update_set_*
update_group_position(name, x, y) ==
    /\ ~hung
    /\ IF name \in DOMAIN parent_groups
       THEN /\ group_positions' = Put(group_positions, name, <<x, y>>)
            /\ UNCHANGED <<sets, set_positions, set_colors, set_sizes,
                           set_transparency, set_parents, parent_groups, group_colors,
                           group_sizes, group_transparency, active_channels>>
            /\ Returns("update_group_position", name, None, "True")
       ELSE /\ UNCHANGED regVars
            /\ Returns("update_group_position", name, None, "False")

update_group_size(name, width, height) ==
    /\ ~hung
    /\ IF name \in DOMAIN parent_groups
       THEN /\ group_sizes' = Put(group_sizes, name, <<width, height>>)
            /\ UNCHANGED <<sets, set_positions, set_colors, set_sizes,
                           set_transparency, set_parents, parent_groups, group_positions,
                           group_colors, group_transparency, active_channels>>
            /\ Returns("update_group_size", name, None, "True")
       ELSE /\ UNCHANGED regVars
            /\ Returns("update_group_size", name, None, "False")

update_group_color(name, r, g, b) ==
    /\ ~hung
    /\ IF name \in DOMAIN parent_groups
       THEN /\ group_colors' = Put(group_colors, name, <<r, g, b>>)
            /\ UNCHANGED <<sets, set_positions, set_colors, set_sizes,
                           set_transparency, set_parents, parent_groups, group_positions,
                           group_sizes, group_transparency, active_channels>>
            /\ Returns("update_group_color", name, None, "True")
       ELSE /\ UNCHANGED regVars
            /\ Returns("update_group_color", name, None, "False")

update_group_transparency(name, transparency) ==
    /\ ~hung
    /\ IF name \in DOMAIN parent_groups
       THEN /\ group_transparency' = Put(group_transparency, name, transparency)
            /\ UNCHANGED <<sets, set_positions, set_colors, set_sizes,
                           set_transparency, set_parents, parent_groups, group_positions,
                           group_colors, group_sizes, active_channels>>
            /\ Returns("update_group_transparency", name, None, "True")
       ELSE /\ UNCHANGED regVars
            /\ Returns("update_group_transparency", name, None, "False")

update_set_position(name, x, y) ==
    /\ ~hung
    /\ IF name \in DOMAIN sets
       THEN /\ set_positions' = Put(set_positions, name, <<x, y>>)
            /\ UNCHANGED <<sets, set_colors, set_sizes, set_transparency,
                           set_parents, parent_groups, group_positions, group_colors,
                           group_sizes, group_transparency, active_channels>>
            /\ Returns("update_set_position", name, None, "True")
       ELSE /\ UNCHANGED regVars
            /\ Returns("update_set_position", name, None, "False")

update_set_size(name, width, height) ==
    /\ ~hung
    /\ IF name \in DOMAIN sets
       THEN /\ set_sizes' = Put(set_sizes, name, <<width, height>>)
            /\ UNCHANGED <<sets, set_positions, set_colors, set_transparency,
                           set_parents, parent_groups, group_positions, group_colors,
                           group_sizes, group_transparency, active_channels>>
            /\ Returns("update_set_size", name, None, "True")
       ELSE /\ UNCHANGED regVars
            /\ Returns("update_set_size", name, None, "False")

update_set_color(name, r, g, b) ==
    /\ ~hung
    /\ IF name \in DOMAIN sets
       THEN /\ set_colors' = Put(set_colors, name, <<r, g, b>>)
            /\ UNCHANGED <<sets, set_positions, set_sizes, set_transparency,
                           set_parents, parent_groups, group_positions, group_colors,
                           group_sizes, group_transparency, active_channels>>
            /\ Returns("update_set_color", name, None, "True")
       ELSE /\ UNCHANGED regVars
            /\ Returns("update_set_color", name, None, "False")

update_set_transparency(name, transparency) ==
    /\ ~hung
    /\ IF name \in DOMAIN sets
       THEN /\ set_transparency' = Put(set_transparency, name, transparency)
            /\ UNCHANGED <<sets, set_positions, set_colors, set_sizes,
                           set_parents, parent_groups, group_positions, group_colors,
                           group_sizes, group_transparency, active_channels>>
            /\ Returns("update_set_transparency", name, None, "True")
       ELSE /\ UNCHANGED regVars
            /\ Returns("update_set_transparency", name, None, "False")

\* ------------------------------------- get_all_objects_in_set_hierarchy
\* the keys of set_parents whose value is set_name
Children(parents, set_name) == {c \in DOMAIN parents : parents[c] = set_name}

\* the enumerations of a set of keys: the orders in which a dict can hold them
Orders(keys) ==
    {order \in [1..Cardinality(keys) -> keys] :
        \A i, j \in 1..Cardinality(keys) : order[i] = order[j] => i = j}

\* the lists get_all_objects_in_set_hierarchy(set_name) can return, one for
\* each order in which set_parents.items() yields the children; fuel is the
\* recursion depth left, and no list is returned when it runs out (the
\* recursion is then inside a cycle and ends in a RecursionError)
RECURSIVE HierarchyLists(_, _, _, _)
RECURSIVE ExtendedLists(_, _, _, _, _)

\* get_all_objects_in_set_hierarchy without the loop over the child sets
OwnObjectsOnly(all_sets, parents, set_name, fuel) ==
    IF set_name \notin DOMAIN all_sets THEN {<<>>} ELSE {all_sets[set_name]}

HierarchyLists(all_sets, parents, set_name, fuel) ==
    IF set_name \notin DOMAIN all_sets THEN {<<>>}
    ELSE IF fuel = 0 THEN {}
    ELSE UNION {ExtendedLists(all_sets, parents, order, all_sets[set_name], fuel - 1) :
                    order \in Orders(Children(parents, set_name))}

\* all_objects after all_objects.extend(...) for the children in order
ExtendedLists(all_sets, parents, order, all_objects, fuel) ==
    IF order = <<>> THEN {all_objects}
    ELSE UNION {ExtendedLists(all_sets, parents, Tail(order), all_objects \o child_objects, fuel) :
                    child_objects \in HierarchyLists(all_sets, parents, Head(order), fuel)}

\* a recursion deeper than the number of sets has entered a set twice
FlattenFuel == Cardinality(DOMAIN sets) + 1

get_all_objects_in_set_hierarchy(set_name) ==
    LET lists == HierarchyLists(sets, set_parents, set_name, FlattenFuel)
    IN  /\ ~hung
        /\ UNCHANGED regVars
        /\ IF lists = {}
           THEN Done("get_all_objects_in_set_hierarchy", set_name, None,
                     "RecursionError", <<>>, <<>>)
           ELSE \E all_objects \in lists :
                    Done("get_all_objects_in_set_hierarchy", set_name, None,
                         "list", all_objects, <<>>)

\* ------------------------------- select_objects_with_channel_filtering
\* the calls to maya.cmds
Select(objects) == [cmd |-> "select", args |-> objects]
SelectClear == [cmd |-> "select(clear=True)", args |-> <<>>]
InViewMessage(amg) == [cmd |-> "inViewMessage", args |-> <<amg>>]
Warning(message) == [cmd |-> "warning", args |-> <<message>>]

\* the order in which the six flags are tested
ChannelOrder == <<"tx", "ty", "tz", "rx", "ry", "rz">>

\* active_components
ActiveComponents(channels) ==
    LET active == SelectSeq(ChannelOrder, LAMBDA c : channels[c])
    IN  [i \in 1..Len(active) |-> "." \o active[i]]

\* selected_attrs: obj + component, objects outermost, for the paths that exist
SelectedAttrs(objects, components) ==
    LET m == Len(components)
        attrs == [k \in 1..(Len(objects) * m) |->
                     objects[((k - 1) \div m) + 1] \o components[((k - 1) % m) + 1]]
    IN  SelectSeq(attrs, objExists)

\* f"Selected {len(selected_attrs)} channels on {len(objects)} objects"
Feedback(selected_attrs, objects) ==
    "Selected " \o ToString(Len(selected_attrs)) \o " channels on "
        \o ToString(Len(objects)) \o " objects"

\* the test without `or not any(...)`
AllOnly(channels) == \A c \in DOMAIN channels : channels[c]

\* all(self.active_channels.values()) or not any(self.active_channels.values())
AllOrNone(channels) ==
    (\A c \in DOMAIN channels : channels[c]) \/ (\A c \in DOMAIN channels : ~channels[c])

\* the calls select_objects_with_channel_filtering makes to maya.cmds (out
\* keeps the objects it was given next to them).  raises
\* names the call inside the try block that raises: "nothing", "select" (of the
\* attribute paths) or "inViewMessage"
FilteringCalls(channels, objects, raises) ==
    IF objects = <<>> THEN <<>>
    ELSE IF AllOrNone(channels) THEN <<Select(objects)>>
    ELSE LET selected_attrs == SelectedAttrs(objects, ActiveComponents(channels))
             fallback == <<Warning("Error in channel filtering: " \o raises
                                       \o ". Selecting objects instead."),
                           Select(objects)>>
         IN  <<SelectClear, Select(objects)>> \o
             ( IF selected_attrs = <<>> THEN <<>>
               ELSE IF raises = "select" THEN fallback
               ELSE IF raises = "inViewMessage"
               THEN <<Select(selected_attrs)>> \o fallback
               ELSE <<Select(selected_attrs),
                      InViewMessage(Feedback(selected_attrs, objects))>> )

select_objects_with_channel_filtering(objects, raises) ==
    /\ ~hung
    /\ UNCHANGED regVars
    /\ Done("select_objects_with_channel_filtering", ToString(objects), raises, None,
            objects, FilteringCalls(active_channels, objects, raises))

\* ------------------------------------------------------------ select_set
AllObjectsUnfiltered(all_objects) == all_objects

\* valid_objects = [obj for obj in all_objects if cmds.objExists(obj)]
ExistingObjects(all_objects) == SelectSeq(all_objects, objExists)

select_set(name, respect_channels, raises) ==
    LET lists == HierarchyLists(sets, set_parents, name, FlattenFuel)
        flags == IF respect_channels THEN "True" ELSE "False"
    IN  /\ ~hung
        /\ UNCHANGED regVars
        /\ IF name \notin DOMAIN sets
           THEN Done("select_set", name, flags, "False", <<>>,
                     <<Warning("Set '" \o name \o "' not found.")>>)
           ELSE IF lists = {}
           THEN Done("select_set", name, flags, "RecursionError", <<>>, <<>>)
           ELSE \E all_objects \in lists :
                  LET valid_objects == ExistingObjects(all_objects)
                  IN  IF valid_objects = <<>>
                      THEN Done("select_set", name, flags, "False", <<>>,
                                <<Warning("No valid objects found in set '" \o name
                                              \o "' or its children.")>>)
                      ELSE Done("select_set", name, flags, "True", valid_objects,
                                IF respect_channels
                                THEN FilteringCalls(active_channels, valid_objects, raises)
                                ELSE <<Select(valid_objects)>>)

\* -------------------------------------------------- update_channel_state
update_channel_state(channel, state) ==
    /\ ~hung
    /\ IF channel \in DOMAIN active_channels
       THEN /\ active_channels' = [active_channels EXCEPT ![channel] = state]
            /\ UNCHANGED <<sets, set_positions, set_colors, set_sizes,
                           set_transparency, set_parents, parent_groups,
                           group_positions, group_colors, group_sizes,
                           group_transparency>>
            /\ Returns("update_channel_state", channel, ToString(state), "True")
       ELSE /\ UNCHANGED regVars
            /\ Returns("update_channel_state", channel, ToString(state), "False")

\* ----------------------------------------------------------- import_sets
\* A JSON document as import_sets sees it.  file says how far opening and
\* parsing get: "unreadable" (open or json.load raises), "not_object" (the top
\* level is not a dict), "no_sets" (a dict without the "sets" key), "object".
\* bad names the fields to which the document gives a non-empty value that is
\* not a dict (whose .items() raises), and the property fields to which it
\* gives a value that is no container, such as null or a number (on which
\* `name in` raises); the other fields hold dicts.  set_order
\* and group_order list the keys of "sets" and "parent_groups" in document
\* order.
BadShape(doc, field) == field \in doc.bad

\* [obj for obj in objects if cmds.objExists(obj)]
ValidObjects(objects) == SelectSeq(objects, objExists)

\* [set_name for set_name in sets if set_name in self.sets]
ValidSets(members, all_sets) == SelectSeq(members, LAMBDA n : n \in DOMAIN all_sets)

\* the names of order[1..i] that import_sets has stored in self.sets
StoredUpTo(doc, i) ==
    {doc.set_order[j] : j \in {k \in 1..i : ValidObjects(doc.sets[doc.set_order[k]]) # <<>>}}

IndexIn(order, name) == CHOOSE i \in 1..Len(order) : order[i] = name

\* self.sets after the "Import all sets" loop
ImportedSets(doc) ==
    [name \in {n \in DOMAIN doc.sets : ValidObjects(doc.sets[n]) # <<>>}
        |-> ValidObjects(doc.sets[name])]

\* [20, 20 + (len(self.sets) * 30)] at the moment name is stored
DefaultSetPosition(doc, name) ==
    <<20, 20 + Cardinality(StoredUpTo(doc, IndexIn(doc.set_order, name))) * 30>>

\* [20, 20 + (len(self.parent_groups) * 30)] at the moment name is stored
DefaultGroupPosition(doc, name) ==
    <<20, 20 + IndexIn(doc.group_order, name) * 30>>

\* a property dict after import: the document's value, or the default
ImportedProps(names, given, defaults) ==
    [name \in names |-> IF name \in DOMAIN given THEN given[name] ELSE defaults[name]]

\* the "Import parent relationships" loop without its test
ImportedParentsUnchecked(doc, all_sets) == doc.parents

\* self.set_parents after the "Import parent relationships" loop
ImportedParents(doc, all_sets) ==
    [name \in {n \in DOMAIN doc.parents :
                  /\ n \in DOMAIN all_sets
                  /\ (doc.parents[n] = None \/ doc.parents[n] \in DOMAIN all_sets)}
        |-> doc.parents[name]]

\* self.parent_groups after the "Import parent groups" loop
ImportedGroups(doc, all_sets) ==
    [name \in DOMAIN doc.parent_groups |-> ValidSets(doc.parent_groups[name], all_sets)]

\* self.active_channels after "Update channel states if available"
ImportedChannels(doc, channels) ==
    [c \in DOMAIN channels |->
        IF c \in DOMAIN doc.channels THEN doc.channels[c] ELSE channels[c]]

\* import_sets without the "Clear existing sets and groups" block
ClearedNothing(reg) == reg

\* the registry after the "Clear existing sets and groups" block
Cleared(reg) ==
    [sets |-> EmptyDict, set_positions |-> EmptyDict, set_colors |-> EmptyDict,
     set_sizes |-> EmptyDict, set_transparency |-> EmptyDict,
     set_parents |-> EmptyDict, parent_groups |-> EmptyDict,
     group_positions |-> EmptyDict, group_colors |-> EmptyDict,
     group_sizes |-> EmptyDict, group_transparency |-> EmptyDict,
     active_channels |-> reg.active_channels]

\* the registry after the set loop, which assigns into the cleared dicts
WithSets(doc, reg) ==
    LET names == DOMAIN ImportedSets(doc)
    IN  [reg EXCEPT
            !.sets = Update(@, ImportedSets(doc)),
            !.set_positions = Update(@, ImportedProps(names, doc.positions,
                                  [n \in names |-> DefaultSetPosition(doc, n)])),
            !.set_colors = Update(@, ImportedProps(names, doc.colors,
                                  [n \in names |-> DefaultSetColor])),
            !.set_sizes = Update(@, ImportedProps(names, doc.sizes,
                                  [n \in names |-> DefaultSetSize])),
            !.set_transparency = Update(@, ImportedProps(names, doc.transparency,
                                  [n \in names |-> DefaultTransparency]))]

\* d restricted to the keys in K
Restrict(d, K) == [k \in (DOMAIN d) \cap K |-> d[k]]

\* the property fields in the order in which the two loops test them
SetPropFields == <<"positions", "colors", "sizes", "transparency">>
GroupPropFields ==
    <<"group_positions", "group_colors", "group_sizes", "group_transparency">>

\* how many of the fields are assigned for a name before a test
\* `name in imported_...` raises: all of them when no field is misshapen
AssignedBefore(doc, fields) ==
    LET bad == {i \in 1..Len(fields) : BadShape(doc, fields[i])}
    IN  IF bad = {} THEN Len(fields)
        ELSE (CHOOSE i \in bad : \A j \in bad : i <= j) - 1

\* the set loop raises in its first stored set, at a misshapen property field
SetLoopRaises(doc) ==
    /\ DOMAIN ImportedSets(doc) # {}
    /\ AssignedBefore(doc, SetPropFields) < Len(SetPropFields)

\* the registry the set loop leaves behind when it raises: the first stored
\* set with the properties assigned before the misshapen field
WithFirstSet(doc, reg) ==
    LET names == DOMAIN ImportedSets(doc)
        first == CHOOSE i \in 1..Len(doc.set_order) :
                    /\ doc.set_order[i] \in names
                    /\ \A j \in 1..(i - 1) : doc.set_order[j] \notin names
        n == {doc.set_order[first]}
        k == AssignedBefore(doc, SetPropFields)
        full == WithSets(doc, reg)
    IN  [reg EXCEPT
            !.sets = Update(@, Restrict(full.sets, n)),
            !.set_positions = IF k >= 1 THEN Update(@, Restrict(full.set_positions, n)) ELSE @,
            !.set_colors = IF k >= 2 THEN Update(@, Restrict(full.set_colors, n)) ELSE @,
            !.set_sizes = IF k >= 3 THEN Update(@, Restrict(full.set_sizes, n)) ELSE @]

\* the registry after the group loop
WithGroups(doc, reg) ==
    LET names == DOMAIN doc.parent_groups
    IN  [reg EXCEPT
            !.parent_groups = Update(@, ImportedGroups(doc, reg.sets)),
            !.group_positions = Update(@, ImportedProps(names, doc.group_positions,
                                  [n \in names |-> DefaultGroupPosition(doc, n)])),
            !.group_colors = Update(@, ImportedProps(names, doc.group_colors,
                                  [n \in names |-> DefaultGroupColor])),
            !.group_sizes = Update(@, ImportedProps(names, doc.group_sizes,
                                  [n \in names |-> DefaultGroupSize])),
            !.group_transparency = Update(@, ImportedProps(names, doc.group_transparency,
                                  [n \in names |-> DefaultTransparency]))]

\* the group loop raises in its first group, at a misshapen property field
GroupLoopRaises(doc) ==
    /\ DOMAIN doc.parent_groups # {}
    /\ AssignedBefore(doc, GroupPropFields) < Len(GroupPropFields)

\* the registry the group loop leaves behind when it raises
WithFirstGroup(doc, reg) ==
    LET n == {doc.group_order[1]}
        k == AssignedBefore(doc, GroupPropFields)
        full == WithGroups(doc, reg)
    IN  [reg EXCEPT
            !.parent_groups = Update(@, Restrict(full.parent_groups, n)),
            !.group_positions = IF k >= 1 THEN Update(@, Restrict(full.group_positions, n)) ELSE @,
            !.group_colors = IF k >= 2 THEN Update(@, Restrict(full.group_colors, n)) ELSE @,
            !.group_sizes = IF k >= 3 THEN Update(@, Restrict(full.group_sizes, n)) ELSE @]

\* what import_sets returns and the registry it leaves behind; every raise
\* lands in the outer except, which returns False and restores nothing
ImportResult(doc, reg) ==
    IF doc.file # "object" THEN [ret |-> "False", reg |-> reg]
    ELSE IF BadShape(doc, "channels") THEN [ret |-> "False", reg |-> reg]
    ELSE LET chan == [reg EXCEPT !.active_channels = ImportedChannels(doc, @)]
             cleared == Cleared(chan)
         IN  IF BadShape(doc, "sets") THEN [ret |-> "False", reg |-> cleared]
             ELSE IF SetLoopRaises(doc)
             THEN [ret |-> "False", reg |-> WithFirstSet(doc, cleared)]
             ELSE LET withSets == WithSets(doc, cleared)
                  IN  IF BadShape(doc, "parents")
                      THEN [ret |-> "False", reg |-> withSets]
                      ELSE LET withParents ==
                                  [withSets EXCEPT
                                      !.set_parents =
                                          Update(@, ImportedParents(doc, withSets.sets))]
                           IN  IF BadShape(doc, "parent_groups")
                               THEN [ret |-> "False", reg |-> withParents]
                               ELSE IF GroupLoopRaises(doc)
                               THEN [ret |-> "False",
                                     reg |-> WithFirstGroup(doc, withParents)]
                               ELSE [ret |-> "True",
                                     reg |-> WithGroups(doc, withParents)]

\* the twelve dicts of the manager become those of reg
Becomes(reg) ==
    /\ sets' = reg.sets
    /\ set_positions' = reg.set_positions
    /\ set_colors' = reg.set_colors
    /\ set_sizes' = reg.set_sizes
    /\ set_transparency' = reg.set_transparency
    /\ set_parents' = reg.set_parents
    /\ parent_groups' = reg.parent_groups
    /\ group_positions' = reg.group_positions
    /\ group_colors' = reg.group_colors
    /\ group_sizes' = reg.group_sizes
    /\ group_transparency' = reg.group_transparency
    /\ active_channels' = reg.active_channels

import_sets(doc) ==
    LET result == ImportResult(doc, Registry)
    IN  /\ ~hung
        /\ Becomes(result.reg)
        /\ Returns("import_sets", doc.id, None, result.ret)

\* ----------------------------------------------------------- export_sets
\* json.dump writes None as null and json.load reads null as None; a str is
\* written and read back as the same str
JsonNull == "null"
Quoted(name) == "\"" \o name \o "\""
JsonDump(value) == IF value = None THEN JsonNull ELSE Quoted(value)
JsonLoad(text) == IF text = JsonNull THEN None
                  ELSE CHOOSE name \in {None} \cup HierNames \cup AllGroups : Quoted(name) = text

\* the document import_sets reads from a file export_sets has written, with
\* the keys of self.sets and self.parent_groups in the given orders
ExportedDoc(reg, set_order, group_order) ==
    [id |-> "exported", file |-> "object", bad |-> {},
     sets |-> reg.sets, set_order |-> set_order,
     positions |-> reg.set_positions, colors |-> reg.set_colors,
     sizes |-> reg.set_sizes, transparency |-> reg.set_transparency,
     parents |-> [n \in DOMAIN reg.set_parents |-> JsonLoad(JsonDump(reg.set_parents[n]))],
     channels |-> reg.active_channels,
     parent_groups |-> reg.parent_groups, group_order |-> group_order,
     group_positions |-> reg.group_positions, group_colors |-> reg.group_colors,
     group_sizes |-> reg.group_sizes, group_transparency |-> reg.group_transparency]

\* the file left behind when open(file_path, 'w') raises: import_sets cannot
\* read it
UnwrittenDoc ==
    [id |-> "unwritten", file |-> "unreadable", bad |-> {},
     sets |-> EmptyDict, set_order |-> <<>>,
     positions |-> EmptyDict, colors |-> EmptyDict, sizes |-> EmptyDict,
     transparency |-> EmptyDict, parents |-> EmptyDict, channels |-> EmptyDict,
     parent_groups |-> EmptyDict, group_order |-> <<>>,
     group_positions |-> EmptyDict, group_colors |-> EmptyDict,
     group_sizes |-> EmptyDict, group_transparency |-> EmptyDict]

\* export_sets(file_path) followed by import_sets(file_path); writable says
\* whether export_sets can write the file.  a2 is what export_sets returns,
\* ret what import_sets returns
export_then_import(writable, set_order, group_order) ==
    LET doc == IF writable THEN ExportedDoc(Registry, set_order, group_order)
               ELSE UnwrittenDoc
        result == ImportResult(doc, Registry)
    IN  /\ ~hung
        /\ Becomes(result.reg)
        /\ Returns("export_sets;import_sets", doc.id,
                   IF writable THEN "True" ELSE "False", result.ret)


\* =============================================================== widgets
\* What the calls of the manager that the widgets make return, and the
\* registry they leave behind, as [ret, reg]: the same code as the actions
\* above, over a registry record, so that a handler that makes several calls
\* is one step.

\* manager.create_set(name)
CreateSetResult(reg, name, selection) ==
    IF selection = <<>> THEN [ret |-> None, reg |-> reg]
    ELSE LET set_name == get_unique_name(name, DOMAIN reg.sets)
             position == IF DOMAIN reg.set_positions # {}
                         THEN OffsetFromLast(reg.set_positions) ELSE <<20, 20>>
         IN  [ret |-> set_name,
              reg |-> [reg EXCEPT
                          !.sets = Put(@, set_name, selection),
                          !.set_positions = Put(@, set_name, position),
                          !.set_colors = Put(@, set_name, DefaultSetColor),
                          !.set_sizes = Put(@, set_name, DefaultSetSize),
                          !.set_transparency = Put(@, set_name, DefaultTransparency),
                          !.set_parents = Put(@, set_name, None)]]

\* manager.create_parent_group(name)
CreateParentGroupResult(reg, name) ==
    LET group_name == get_unique_name(name, DOMAIN reg.parent_groups)
        position == IF DOMAIN reg.group_positions # {}
                    THEN OffsetFromLast(reg.group_positions)
                    ELSE IF DOMAIN reg.set_positions # {}
                    THEN OffsetFromLast(reg.set_positions)
                    ELSE <<20, 20>>
    IN  [ret |-> group_name,
         reg |-> [reg EXCEPT
                     !.parent_groups = Put(@, group_name, <<>>),
                     !.group_positions = Put(@, group_name, position),
                     !.group_colors = Put(@, group_name, DefaultGroupColor),
                     !.group_sizes = Put(@, group_name, DefaultGroupSize),
                     !.group_transparency = Put(@, group_name, DefaultTransparency)]]

\* manager.add_set_to_group(set_name, group_name)
AddSetToGroupResult(reg, set_name, group_name) ==
    IF set_name \notin DOMAIN reg.sets \/ group_name \notin DOMAIN reg.parent_groups
    THEN [ret |-> "False", reg |-> reg]
    ELSE [ret |-> "True",
          reg |-> [reg EXCEPT !.parent_groups = AddToGroups(@, set_name, group_name)]]

\* manager.remove_set_from_group(set_name, group_name)
RemoveSetFromGroupResult(reg, set_name, group_name) ==
    [ret |-> RemoveFromGroupsRet(reg.sets, reg.parent_groups, set_name, group_name),
     reg |-> [reg EXCEPT !.parent_groups =
                             RemoveFromGroups(reg.sets, @, set_name, group_name)]]

\* manager.rename_set(old_name, new_name)
RenameSetResult(reg, old_name, new_name) ==
    IF old_name \notin DOMAIN reg.sets \/ NameTaken(new_name, DOMAIN reg.sets)
    THEN [ret |-> "False", reg |-> reg]
    ELSE [ret |-> "True",
          reg |-> [reg EXCEPT
                      !.sets = Del(Put(@, new_name, @[old_name]), old_name),
                      !.set_positions = MoveKey(@, old_name, new_name),
                      !.set_colors = MoveKey(@, old_name, new_name),
                      !.set_sizes = MoveKey(@, old_name, new_name),
                      !.set_transparency = MoveKey(@, old_name, new_name),
                      !.set_parents = RenameParents(@, old_name, new_name),
                      !.parent_groups = RenameInGroups(@, old_name, new_name)]]

\* manager.delete_set(name)
DeleteSetResult(reg, name) ==
    IF name \notin DOMAIN reg.sets THEN [ret |-> "False", reg |-> reg]
    ELSE [ret |-> "True",
          reg |-> [reg EXCEPT
                      !.sets = Del(@, name),
                      !.set_positions = Del(@, name),
                      !.set_colors = Del(@, name),
                      !.set_sizes = Del(@, name),
                      !.set_transparency = Del(@, name),
                      !.set_parents = DeleteParents(@, name),
                      !.parent_groups = DeleteFromGroups(reg.sets, @, name)]]

\* bookkeeping of a handler of the user interface that returns
Handled(op, a1, a2, ret) ==
    /\ Noted(op, a1, a2, ret, <<>>, <<>>)
    /\ pre_widgets' = set_widgets

\* --------------------------------------------- workspace.add_set_widget
\* the widget add_set_widget makes for a set whose position and size the
\* manager holds, as they do after create_set and after import_sets: it is
\* moved to the position and resized to the size
NewSetWidget(reg, set_name) ==
    [pos |-> reg.set_positions[set_name], size |-> reg.set_sizes[set_name]]

\* ------------------------------------- workspace.add_parent_group_widget
\* child_widgets of the widget add_parent_group_widget makes: the members
\* of the group that have a widget
NewGroupWidget(reg, widgets, group_name) ==
    IF group_name \in DOMAIN reg.parent_groups
    THEN {n \in DOMAIN widgets : InList(reg.parent_groups[group_name], n)}
    ELSE {}

\* ------------------------------------------- SelectionSetUI.create_set
\* the Create Set button; the name create_set is given stands for "NewSet"
ui_create_set(selection) ==
    LET result == CreateSetResult(Registry, SetBase, selection)
    IN  /\ ~hung
        /\ selection # <<>> =>
              /\ Cardinality(DOMAIN sets) < MaxSets
              /\ \A i \in 1..2 : result.reg.set_positions[result.ret][i] <= MaxCoord
        /\ Becomes(result.reg)
        /\ set_widgets' = IF Truthy(result.ret)
                          THEN Put(set_widgets, result.ret,
                                   NewSetWidget(result.reg, result.ret))
                          ELSE set_widgets
        /\ UNCHANGED group_widgets
        /\ Handled("SelectionSetUI.create_set", None, None, result.ret)

\* ----------------------------------- SelectionSetUI.create_parent_group
\* the Create Group button: the dialog gives a name and whether OK was hit
ui_create_parent_group(name, ok) ==
    LET result == CreateParentGroupResult(Registry, name)
    IN  /\ ~hung
        /\ IF ok /\ Truthy(name)
           THEN /\ Cardinality(DOMAIN parent_groups) < MaxGroups
                /\ \A i \in 1..2 : result.reg.group_positions[result.ret][i] <= MaxCoord
                /\ Becomes(result.reg)
                /\ group_widgets' = Put(group_widgets, result.ret,
                                        NewGroupWidget(result.reg, set_widgets, result.ret))
                /\ UNCHANGED set_widgets
                /\ Handled("SelectionSetUI.create_parent_group", name, "True", result.ret)
           ELSE /\ UNCHANGED <<regVars, set_widgets, group_widgets>>
                /\ Handled("SelectionSetUI.create_parent_group", name, ToString(ok), None)

\* --------------------------------- SelectionSetWorkspace.add_set_to_group
\* group_widgets after group_widget.add_set_widget(set_name, set_widget)
AddSetWidget(groups, set_name, group_name) ==
    [groups EXCEPT ![group_name] = @ \cup {set_name}]

\* the registry and the group widgets after add_set_to_group of the
\* workspace, given the set widgets there are
WorkspaceAddSetToGroup(reg, widgets, groups, set_name, group_name) ==
    IF set_name \in DOMAIN widgets /\ group_name \in DOMAIN groups
    THEN [reg |-> AddSetToGroupResult(reg, set_name, group_name).reg,
          groups |-> AddSetWidget(groups, set_name, group_name)]
    ELSE [reg |-> reg, groups |-> groups]

workspace_add_set_to_group(set_name, group_name) ==
    LET result == WorkspaceAddSetToGroup(Registry, set_widgets, group_widgets,
                                         set_name, group_name)
    IN  /\ ~hung
        /\ \A g \in DOMAIN result.reg.parent_groups :
               Len(result.reg.parent_groups[g]) <= MaxMembers
        /\ Becomes(result.reg)
        /\ group_widgets' = result.groups
        /\ UNCHANGED set_widgets
        /\ Handled("SelectionSetWorkspace.add_set_to_group", set_name, group_name, None)

\* ---------------------------- SelectionSetWorkspace.remove_set_from_group
\* group_widgets after the "Update in UI" branch: remove_set_widget on the
\* widget of group_name when one is given and has a widget, and otherwise
\* on every group widget
RemoveSetWidget(groups, set_name, group_name) ==
    IF Truthy(group_name) /\ group_name \in DOMAIN groups
    THEN [groups EXCEPT ![group_name] = @ \ {set_name}]
    ELSE [g \in DOMAIN groups |-> groups[g] \ {set_name}]

workspace_remove_set_from_group(set_name, group_name) ==
    LET result == RemoveSetFromGroupResult(Registry, set_name, group_name)
    IN  /\ ~hung
        /\ IF set_name \in DOMAIN set_widgets
           THEN /\ Becomes(result.reg)
                /\ group_widgets' = RemoveSetWidget(group_widgets, set_name, group_name)
           ELSE UNCHANGED <<regVars, group_widgets>>
        /\ UNCHANGED set_widgets
        /\ Handled("SelectionSetWorkspace.remove_set_from_group", set_name, group_name, None)

\* ------------------------------------ SelectionSetWorkspace.rename_widget
\* the Rename entry of the context menu: the dialog gives a name and whether
\* OK was hit
rename_widget(old_name, new_name, ok) ==
    LET result == RenameSetResult(Registry, old_name, new_name)
    IN  /\ ~hung
        /\ IF /\ old_name \in DOMAIN set_widgets
              /\ ok /\ Truthy(new_name) /\ new_name # old_name
           THEN /\ Becomes(result.reg)
                /\ set_widgets' = IF result.ret = "True"
                                  THEN MoveKey(set_widgets, old_name, new_name)
                                  ELSE set_widgets
                /\ Handled("SelectionSetWorkspace.rename_widget", old_name, new_name,
                           result.ret)
           ELSE /\ UNCHANGED <<regVars, set_widgets>>
                /\ Handled("SelectionSetWorkspace.rename_widget", old_name, new_name, None)
        /\ UNCHANGED group_widgets

\* ------------------------------------ SelectionSetWorkspace.delete_widget
\* the Delete entry of the context menu: confirmed says whether Yes was hit.
\* remove_set_from_group(set_name) of the workspace runs first, then
\* manager.delete_set, then the widget goes
delete_widget(set_name, confirmed) ==
    LET removed == RemoveSetFromGroupResult(Registry, set_name, None)
        result == DeleteSetResult(removed.reg, set_name)
    IN  /\ ~hung
        /\ IF set_name \in DOMAIN set_widgets /\ confirmed
           THEN /\ Becomes(result.reg)
                /\ group_widgets' = RemoveSetWidget(group_widgets, set_name, None)
                /\ set_widgets' = Del(set_widgets, set_name)
           ELSE UNCHANGED <<regVars, set_widgets, group_widgets>>
        /\ Handled("SelectionSetWorkspace.delete_widget", set_name, ToString(confirmed), None)

\* ------------------------------------------ SelectionSetUI.import_sets
\* the inner loop of "Add sets to groups" from index i on: the list
\* iterator reads set_names[i] from the list as it is at that moment, and
\* stops when i is past its end
RECURSIVE AddMembersFrom(_, _, _, _)
AddMembersFrom(st, widgets, group_name, i) ==
    IF i > Len(st.reg.parent_groups[group_name]) THEN st
    ELSE AddMembersFrom(
             WorkspaceAddSetToGroup(st.reg, widgets, st.groups,
                                    st.reg.parent_groups[group_name][i], group_name),
             widgets, group_name, i + 1)

\* the outer loop over self.manager.parent_groups.items(), in key order
RECURSIVE AddSetsToGroups(_, _, _)
AddSetsToGroups(st, widgets, order) ==
    IF order = <<>> THEN st
    ELSE AddSetsToGroups(AddMembersFrom(st, widgets, Head(order), 1),
                         widgets, Tail(order))

\* the widgets and the registry after the rebuild that follows a successful
\* manager.import_sets: both widget dicts are cleared, a widget is made for
\* every group (no set has a widget yet) and for every set, and the sets are
\* added to their groups; the colour and transparency updates store the
\* values the manager already holds
Rebuilt(reg, group_order) ==
    LET widgets == [n \in DOMAIN reg.sets |-> NewSetWidget(reg, n)]
        groups == [g \in DOMAIN reg.parent_groups |-> NewGroupWidget(reg, EmptyDict, g)]
        st == AddSetsToGroups([reg |-> reg, groups |-> groups], widgets, group_order)
    IN  [reg |-> st.reg, set_widgets |-> widgets, group_widgets |-> st.groups]

\* the Import Sets button: chosen says whether the file dialog gave a path
ui_import_sets(doc, chosen) ==
    LET result == ImportResult(doc, Registry)
        rebuilt == Rebuilt(result.reg, doc.group_order)
    IN  /\ ~hung
        /\ IF ~chosen
           THEN /\ UNCHANGED <<regVars, set_widgets, group_widgets>>
                /\ Handled("SelectionSetUI.import_sets", doc.id, "cancelled", None)
           ELSE IF result.ret = "True"
           THEN /\ Becomes(rebuilt.reg)
                /\ set_widgets' = rebuilt.set_widgets
                /\ group_widgets' = rebuilt.group_widgets
                /\ Handled("SelectionSetUI.import_sets", doc.id, "chosen", "True")
           ELSE /\ Becomes(result.reg)
                /\ UNCHANGED <<set_widgets, group_widgets>>
                /\ Handled("SelectionSetUI.import_sets", doc.id, "chosen", "False")

\* ------------------------------- SelectionSetManager.create_chain_set
\* cmds.listRelatives(top_node, allDescendants=True): in the scene o2 is
\* the only child of o1
listRelatives(top_node) == IF top_node = "o1" THEN <<"o2">> ELSE <<>>

\* f"{short_name}_Chain"; the names of the scene objects hold no "|", so
\* the short name of a node is the last and only part of its name
ChainName(top_node) == top_node \o "_Chain"

\* the chain is selected, create_set(name) stores that selection, and the
\* selection is restored
CreateChainSetResult(reg, top_node, name) ==
    IF ~objExists(top_node) THEN [ret |-> None, reg |-> reg]
    ELSE CreateSetResult(reg,
                         IF Truthy(name) THEN name ELSE ChainName(top_node),
                         <<top_node>> \o listRelatives(top_node))

\* ------------------------------- ChainSelectionPanel.create_chain_set
\* hasattr(self.parent(), 'workspace'): the panel is constructed without a
\* parent and handed to QTabWidget.addTab, so its parent is never the
\* SelectionSetUI, the only object with a workspace attribute
PanelParentHasWorkspace == FALSE

\* the Create Chain Set button with this selection in the scene and this
\* text (stripped) in the name field
chain_panel_create_chain_set(selection, custom_name) ==
    LET result == IF selection = <<>> THEN [ret |-> None, reg |-> Registry]
                  ELSE CreateChainSetResult(Registry, selection[1],
                                            IF Truthy(custom_name) THEN custom_name ELSE None)
    IN  /\ ~hung
        /\ Truthy(result.ret) =>
              /\ Cardinality(DOMAIN sets) < MaxSets
              /\ \A i \in 1..2 : result.reg.set_positions[result.ret][i] <= MaxCoord
        /\ Becomes(result.reg)
        /\ set_widgets' = IF Truthy(result.ret) /\ PanelParentHasWorkspace
                          THEN Put(set_widgets, result.ret,
                                   NewSetWidget(result.reg, result.ret))
                          ELSE set_widgets
        /\ UNCHANGED group_widgets
        /\ Handled("ChainSelectionPanel.create_chain_set",
                   IF selection = <<>> THEN None ELSE selection[1], custom_name, result.ret)

\* ---------------------------- SelectionSetWorkspace.is_inside_parent
\* parent_rect.contains(child_rect): the rectangle of the child lies within
\* the rectangle of the parent, edges included
is_inside_parent(widgets, child_name, parent_name) ==
    /\ child_name \in DOMAIN widgets
    /\ parent_name \in DOMAIN widgets
    /\ \A i \in 1..2 :
          /\ widgets[parent_name].pos[i] <= widgets[child_name].pos[i]
          /\ widgets[child_name].pos[i] + widgets[child_name].size[i]
                <= widgets[parent_name].pos[i] + widgets[parent_name].size[i]

\* ------------------ SelectionSetWorkspace.update_child_widget_positions
\* st is [reg, widgets, raised]; order is the key order of set_parents; fuel
\* is the recursion depth left, and raised is set when it runs out (the
\* recursion is then inside a cycle and ends in a RecursionError)
RECURSIVE update_child_widget_positions(_, _, _, _)
RECURSIVE MoveChildren(_, _, _, _, _, _)

\* the loop "Move children that need to stay with the parent"
MoveChildren(st, parent_name, parent_pos, children, order, fuel) ==
    IF children = <<>> \/ st.raised THEN st
    ELSE LET child_name == Head(children)
             relative ==
                 [i \in 1..2 |->
                     st.widgets[child_name].pos[i]
                         - (parent_pos[i] - st.reg.set_positions[parent_name][i])]
             moved ==
                 [st EXCEPT
                     !.widgets[child_name].pos = relative,
                     !.reg.set_positions =
                         IF child_name \in DOMAIN st.reg.sets
                         THEN Put(@, child_name, relative) ELSE @]
         IN  IF is_inside_parent(st.widgets, child_name, parent_name)
             THEN MoveChildren(
                      IF fuel = 0 THEN [moved EXCEPT !.raised = TRUE]
                      ELSE update_child_widget_positions(moved, child_name, order, fuel - 1),
                      parent_name, parent_pos, Tail(children), order, fuel)
             ELSE MoveChildren(st, parent_name, parent_pos, Tail(children), order, fuel)

update_child_widget_positions(st, parent_name, order, fuel) ==
    LET children == SelectSeq(order, LAMBDA c : st.reg.set_parents[c] = parent_name)
    IN  IF children = <<>> THEN st
        ELSE MoveChildren(st, parent_name, st.widgets[parent_name].pos,
                          children, order, fuel)

\* ------------------------- SelectionSetWorkspace.update_widget_position
\* manager.update_set_position, then the children
update_widget_position(reg, widgets, set_name, x, y, order) ==
    LET stored == IF set_name \in DOMAIN reg.sets
                  THEN [reg EXCEPT !.set_positions = Put(@, set_name, <<x, y>>)]
                  ELSE reg
    IN  IF set_name \in DOMAIN widgets
        THEN update_child_widget_positions(
                 [reg |-> stored, widgets |-> widgets, raised |-> FALSE],
                 set_name, order, Cardinality(DOMAIN reg.set_parents) + 1)
        ELSE [reg |-> reg, widgets |-> widgets, raised |-> FALSE]

\* ---------------------------------- DraggableSetWidget.mouseReleaseEvent
\* the left button is released over a set widget that the drag has moved
\* to (x, y); the release of a drag is no click, so no set is selected
mouseReleaseEvent(set_name, x, y, order) ==
    LET dragged == [set_widgets EXCEPT ![set_name].pos = <<x, y>>]
        result == update_widget_position(Registry, dragged, set_name, x, y, order)
    IN  /\ ~hung
        /\ set_name \in DOMAIN set_widgets
        /\ Becomes(result.reg)
        /\ set_widgets' = result.widgets
        /\ UNCHANGED group_widgets
        /\ Handled("DraggableSetWidget.mouseReleaseEvent", set_name, ToString(<<x, y>>),
                   IF result.raised THEN "RecursionError" ELSE None)

\* ----------------------------------------------------------------- calls
CreateSet == \E selection \in Selections : create_set(SetBase, selection)
\* selections holding an object that is deleted from the scene after the set
\* is created: cmds.objExists is false of it from then on
GoneSelections == {<<"gone">>, <<"o1", "gone">>}
CreateSetFrom(selections) == \E selection \in selections : create_set(SetBase, selection)
RenameSet(Names) == \E old_name \in Names, new_name \in Names : rename_set(old_name, new_name)
DeleteSet(Names) == \E name \in Names : delete_set(name)
SetParent(Names) == \E child_name \in Names, parent_name \in Names \cup {None} :
                        set_parent(child_name, parent_name)
CreateParentGroup == create_parent_group(GroupBase)
AddSetToGroup(Names) == \E set_name \in Names, group_name \in AllGroups :
                        add_set_to_group(set_name, group_name)
RemoveSetFromGroup(Names) == \E set_name \in Names, group_name \in AllGroups \cup {None} :
                        remove_set_from_group(set_name, group_name)
RenameParentGroup == \E old_name \in AllGroups, new_name \in AllGroups :
                        rename_parent_group(old_name, new_name)
DeleteParentGroup == \E name \in AllGroups : delete_parent_group(name)
\* a widget is dragged to the corner, resized, recoloured and made opaque
UpdateSet(Names) ==
    \E name \in Names :
        \/ update_set_position(name, 0, 0)
        \/ update_set_size(name, 100, 100)
        \/ update_set_color(name, 255, 0, 0)
        \/ update_set_transparency(name, 255)
UpdateGroup(Names) ==
    \E name \in Names :
        \/ update_group_position(name, 0, 0)
        \/ update_group_size(name, 100, 100)
        \/ update_group_color(name, 255, 0, 0)
        \/ update_group_transparency(name, 255)
GetAllObjects(Names) == \E set_name \in Names : get_all_objects_in_set_hierarchy(set_name)
SelectSet(Names) == \E name \in Names, respect_channels \in BOOLEAN :
                        select_set(name, respect_channels, "nothing")
\* the lists of objects handed to select_objects_with_channel_filtering
ObjectLists == {<<>>, <<"o1">>, <<"o2">>, <<"o1", "o2">>}
SelectObjects ==
    \E objects \in ObjectLists, raises \in {"nothing", "select", "inViewMessage"} :
        select_objects_with_channel_filtering(objects, raises)
\* the six check boxes, and a channel the manager does not have
UpdateChannels(channels) ==
    \E channel \in channels, state \in BOOLEAN :
        update_channel_state(channel, state)
UpdateChannelState == UpdateChannels(Channels \cup {"sx"})
ExportThenImport ==
    \E writable \in BOOLEAN, set_order \in Orders(DOMAIN sets),
       group_order \in Orders(DOMAIN parent_groups) :
        export_then_import(writable, set_order, group_order)

\* ------------------------------------------------------------- documents
NoFields ==
    [id |-> "", file |-> "object", bad |-> {},
     sets |-> EmptyDict, set_order |-> <<>>,
     positions |-> EmptyDict, colors |-> EmptyDict, sizes |-> EmptyDict,
     transparency |-> EmptyDict, parents |-> EmptyDict, channels |-> EmptyDict,
     parent_groups |-> EmptyDict, group_order |-> <<>>,
     group_positions |-> EmptyDict, group_colors |-> EmptyDict,
     group_sizes |-> EmptyDict, group_transparency |-> EmptyDict]

\* the "sets" field of the documents: every object exists; one object of s_1
\* is gone; every object of s is gone
SetsAllValid == [n \in {"s", "s_1"} |-> IF n = "s" THEN <<"o1">> ELSE <<"o2", "o1">>]
SetsSomeGone == [n \in {"s", "s_1"} |-> IF n = "s" THEN <<"o1">> ELSE <<"gone", "o2">>]
SetsOneEmptied == [n \in {"s", "s_1"} |-> IF n = "s" THEN <<"gone">> ELSE <<"o2">>]
SetsWithEmptyName == [n \in {"", "s"} |-> <<"o1">>]

\* documents that fail before anything is read from them
DocsRejected ==
    { [NoFields EXCEPT !.id = "unreadable", !.file = "unreadable"],
      [NoFields EXCEPT !.id = "not_object", !.file = "not_object"],
      [NoFields EXCEPT !.id = "no_sets", !.file = "no_sets"] }

\* documents with a field of the wrong shape
DocsBadShape ==
    { [NoFields EXCEPT !.id = "bad_channels", !.bad = {"channels"},
          !.sets = SetsAllValid, !.set_order = <<"s", "s_1">>],
      [NoFields EXCEPT !.id = "bad_sets", !.bad = {"sets"},
          !.channels = [c \in {"tx"} |-> FALSE]],
      [NoFields EXCEPT !.id = "bad_parents", !.bad = {"parents"},
          !.sets = SetsAllValid, !.set_order = <<"s", "s_1">>],
      [NoFields EXCEPT !.id = "bad_groups", !.bad = {"parent_groups"},
          !.sets = SetsAllValid, !.set_order = <<"s", "s_1">>,
          !.parents = [n \in {"s_1"} |-> "s"]] }

\* documents about the parent relation
DocsHierarchy ==
    { [NoFields EXCEPT !.id = "empty"],
      [NoFields EXCEPT !.id = "flat", !.sets = SetsSomeGone, !.set_order = <<"s", "s_1">>,
          !.positions = [n \in {"s_1"} |-> <<20, 40>>],
          !.colors = [n \in {"s_1"} |-> <<1, 2, 3>>],
          !.sizes = [n \in {"s_1"} |-> <<50, 60>>],
          !.transparency = [n \in {"s_1"} |-> 255]],
      [NoFields EXCEPT !.id = "chain", !.sets = SetsAllValid, !.set_order = <<"s", "s_1">>,
          !.parents = [n \in {"s", "s_1"} |-> IF n = "s" THEN None ELSE "s"]],
      [NoFields EXCEPT !.id = "self_parent", !.sets = SetsAllValid,
          !.set_order = <<"s_1", "s">>,
          !.parents = [n \in {"s"} |-> "s"]],
      [NoFields EXCEPT !.id = "two_cycle", !.sets = SetsAllValid,
          !.set_order = <<"s", "s_1">>,
          !.parents = [n \in {"s", "s_1"} |-> IF n = "s" THEN "s_1" ELSE "s"]],
      [NoFields EXCEPT !.id = "dangling_parent", !.sets = SetsOneEmptied,
          !.set_order = <<"s", "s_1">>,
          !.parents = [n \in {"s", "s_1"} |-> IF n = "s" THEN None ELSE "s"]],
      [NoFields EXCEPT !.id = "empty_name", !.sets = SetsWithEmptyName,
          !.set_order = <<"", "s">>,
          !.parents = [n \in {"s"} |-> ""]] }

\* documents about group membership
DocsGroups ==
    { [NoFields EXCEPT !.id = "grouped", !.sets = SetsAllValid, !.set_order = <<"s", "s_1">>,
          !.parent_groups = [n \in {"g", "g_1"} |-> IF n = "g" THEN <<"s_1", "s">> ELSE <<>>],
          !.group_order = <<"g", "g_1">>,
          !.group_positions = [n \in {"g"} |-> <<20, 20>>],
          !.group_colors = [n \in {"g"} |-> <<4, 5, 6>>],
          !.group_sizes = [n \in {"g"} |-> <<70, 80>>],
          !.group_transparency = [n \in {"g"} |-> 0]],
      [NoFields EXCEPT !.id = "in_two_groups", !.sets = SetsAllValid,
          !.set_order = <<"s", "s_1">>,
          !.parent_groups = [n \in {"g", "g_1"} |-> IF n = "g" THEN <<"s", "s_1">> ELSE <<"s">>],
          !.group_order = <<"g", "g_1">>],
      [NoFields EXCEPT !.id = "listed_thrice", !.sets = SetsAllValid,
          !.set_order = <<"s", "s_1">>,
          !.parent_groups = [n \in {"g", "g_1"} |-> IF n = "g" THEN <<"s", "s", "s">> ELSE <<"s_1">>],
          !.group_order = <<"g_1", "g">>],
      [NoFields EXCEPT !.id = "dangling_member", !.sets = SetsOneEmptied,
          !.set_order = <<"s", "s_1">>,
          !.parent_groups = [n \in {"g"} |-> <<"s", "s_1", "u">>],
          !.group_order = <<"g">>] }

\* a document that shares no set and no group with a registry of created
\* sets and groups: one object of s_1 is gone, every object of t is gone, and
\* t is named as a parent and as a group member
DocsReplace ==
    { [NoFields EXCEPT !.id = "replacing",
          !.sets = [n \in {"s_1", "t"} |-> IF n = "s_1" THEN <<"o1", "gone", "o2">>
                                                        ELSE <<"gone">>],
          !.set_order = <<"t", "s_1">>,
          !.parents = [n \in {"s_1"} |-> "t"],
          !.parent_groups = [n \in {"g_1"} |-> <<"s_1", "t">>],
          !.group_order = <<"g_1">>] }

\* documents with three sets: a chain t -> s_1 -> s, and s with the two
\* children s_1 and t
SetsThree ==
    [n \in {"s", "s_1", "t"} |->
        IF n = "s" THEN <<"o1">> ELSE IF n = "s_1" THEN <<"o2", "o1">> ELSE <<"o2">>]

DocsDeep ==
    { [NoFields EXCEPT !.id = "three_deep", !.sets = SetsThree,
          !.set_order = <<"s", "s_1", "t">>,
          !.parents = [n \in {"s", "s_1", "t"} |->
                          IF n = "s" THEN None ELSE IF n = "s_1" THEN "s" ELSE "s_1"]],
      [NoFields EXCEPT !.id = "two_children", !.sets = SetsThree,
          !.set_order = <<"t", "s_1", "s">>,
          !.parents = [n \in {"s_1", "t"} |-> "s"]] }

\* documents with a misshapen property field: "colors": null over two sets,
\* and "group_sizes": 5 over a set in a group
DocsBadProps ==
    { [NoFields EXCEPT !.id = "null_colors", !.bad = {"colors"},
          !.sets = SetsAllValid, !.set_order = <<"s", "s_1">>],
      [NoFields EXCEPT !.id = "bad_group_sizes", !.bad = {"group_sizes"},
          !.sets = SetsOneEmptied, !.set_order = <<"s", "s_1">>,
          !.parent_groups = [n \in {"g"} |-> <<"s_1">>],
          !.group_order = <<"g">>] }

\* documents that place sets inside their parents: s holds s_1, which holds
\* t; and s holds t while its other child s_1 lies outside of it
DocsNested ==
    { [NoFields EXCEPT !.id = "nested", !.sets = SetsThree,
          !.set_order = <<"s", "s_1", "t">>,
          !.positions = [n \in {"s", "s_1", "t"} |->
                            IF n = "s" THEN <<20, 20>>
                            ELSE IF n = "s_1" THEN <<40, 60>> ELSE <<60, 80>>],
          !.sizes = [n \in {"s", "t"} |-> IF n = "s" THEN <<400, 400>> ELSE <<100, 50>>],
          !.parents = [n \in {"s_1", "t"} |-> IF n = "s_1" THEN "s" ELSE "s_1"]],
      [NoFields EXCEPT !.id = "child_outside", !.sets = SetsThree,
          !.set_order = <<"s", "s_1", "t">>,
          !.positions = [n \in {"s", "s_1", "t"} |->
                            IF n = "s" THEN <<20, 20>>
                            ELSE IF n = "s_1" THEN <<500, 500>> ELSE <<40, 60>>],
          !.sizes = [n \in {"s", "t"} |-> IF n = "s" THEN <<400, 400>> ELSE <<100, 50>>],
          !.parents = [n \in {"s_1", "t"} |-> "s"]] }

Docs == DocsRejected \cup DocsBadShape \cup DocsHierarchy \cup DocsGroups \cup DocsReplace

DocById(id) == CHOOSE d \in Docs : d.id = id

\* -------------------------------------------------------- specifications
ImportSets(docs) == \E doc \in docs : import_sets(doc)

\* the calls that touch the parent relation, over every document that fails
\* and every document about the parent relation
NextHier ==
    \/ CreateSet
    \/ RenameSet(HierNames)
    \/ DeleteSet(HierNames)
    \/ SetParent(HierNames)
    \/ ImportSets(DocsRejected \cup DocsBadShape \cup DocsHierarchy)

SpecHier == Init /\ [][NextHier]_vars

\* the calls that touch group membership
NextGroups ==
    \/ CreateSet
    \/ RenameSet(GroupNames)
    \/ DeleteSet(GroupNames)
    \/ CreateParentGroup
    \/ AddSetToGroup(GroupNames)
    \/ RemoveSetFromGroup(GroupNames)
    \/ RenameParentGroup
    \/ DeleteParentGroup
    \/ ImportSets(DocsGroups)

SpecGroups == Init /\ [][NextGroups]_vars

\* the calls that touch the parent relation and the calls that flatten it
NextFlatten ==
    \/ NextHier
    \/ ImportSets(DocsDeep)
    \/ GetAllObjects(HierNames)
    \/ SelectSet(HierNames)

SpecFlatten == Init /\ [][NextFlatten]_vars

\* every mutator that takes the name of a set or a group.  The sets and
\* groups are renamed and deleted under the created names, which are missing
\* before they are created and after they are deleted; the empty name is
\* never created here, so it is a missing name in every call that takes it
MissingNames == {""}

NextMutators ==
    \/ CreateSet
    \/ CreateParentGroup
    \/ RenameSet(CreatedNames)
    \/ DeleteSet(CreatedNames)
    \/ SetParent(HierNames)
    \/ AddSetToGroup(HierNames)
    \/ RemoveSetFromGroup(HierNames)
    \/ RenameParentGroup
    \/ DeleteParentGroup
    \/ UpdateSet(MissingNames)
    \/ UpdateGroup(MissingNames)

SpecMutators == Init /\ [][NextMutators]_vars

\* the channel flags and the selection calls
NextSelect ==
    \/ UpdateChannelState
    \/ SelectObjects
    \/ CreateSet
    \/ SelectSet(CreatedNames)

SpecSelect == Init /\ [][NextSelect]_vars

\* select_set over hierarchies of sets that hold objects deleted since
NextSelectSet ==
    \/ CreateSetFrom(GoneSelections \cup {<<"o2", "o1">>})
    \/ SetParent(CreatedNames)
    \/ UpdateChannels({"tx", "ty"})
    \/ SelectSet(CreatedNames)

SpecSelectSet == Init /\ [][NextSelectSet]_vars

\* every call that adds or removes a key of a property dict
NextProps ==
    \/ CreateSet
    \/ RenameSet(CreatedNames)
    \/ DeleteSet(CreatedNames)
    \/ UpdateSet(MissingNames)
    \/ CreateParentGroup
    \/ RenameParentGroup
    \/ DeleteParentGroup
    \/ UpdateGroup(MissingNames)
    \/ ImportSets(DocsBadProps \cup DocsGroups)

SpecProps == Init /\ [][NextProps]_vars

\* sets and groups created under each other's names; the sets and groups
\* there are are deleted and dragged to the corner of the workspace
BaseNames == {SetBase, GroupBase}
NextCreate ==
    \/ \E name \in BaseNames, selection \in Selections : create_set(name, selection)
    \/ \E name \in BaseNames : create_parent_group(name)
    \/ DeleteSet(DOMAIN sets)
    \/ \E name \in DOMAIN parent_groups : delete_parent_group(name)
    \/ \E name \in DOMAIN sets : update_set_position(name, 0, 0)
    \/ \E name \in DOMAIN parent_groups : update_group_position(name, 0, 0)

SpecCreate == Init /\ [][NextCreate]_vars

\* members of groups renamed, also to a name that create_set does not give
FreshName == "t"
NextRenameOrder ==
    \/ CreateSet
    \/ CreateParentGroup
    \/ AddSetToGroup(CreatedNames \cup {FreshName})
    \/ RenameSet(CreatedNames \cup {FreshName})

SpecRenameOrder == Init /\ [][NextRenameOrder]_vars

\* sets put into groups, taken out, renamed and deleted from the workspace
NextGroupWidgets ==
    \/ \E selection \in Selections : ui_create_set(selection)
    \/ \E name \in {GroupBase, ""}, ok \in BOOLEAN : ui_create_parent_group(name, ok)
    \/ \E set_name \in CreatedNames \cup {FreshName}, group_name \in AllGroups :
           workspace_add_set_to_group(set_name, group_name)
    \/ \E set_name \in CreatedNames \cup {FreshName},
          group_name \in DOMAIN group_widgets \cup {None} :
           workspace_remove_set_from_group(set_name, group_name)
    \/ \E old_name \in CreatedNames \cup {FreshName},
          new_name \in CreatedNames \cup {FreshName, ""}, ok \in BOOLEAN :
           rename_widget(old_name, new_name, ok)
    \/ \E set_name \in CreatedNames \cup {FreshName}, confirmed \in BOOLEAN :
           delete_widget(set_name, confirmed)

SpecGroupWidgets == Init /\ [][NextGroupWidgets]_vars

\* the Import Sets button over documents with groups of no, one and
\* several members, into workspaces that hold sets and groups
UiDocs == DocsGroups \cup DocsReplace \cup DocsRejected
NextUiImport ==
    \/ \E selection \in Selections : ui_create_set(selection)
    \/ \E ok \in BOOLEAN : ui_create_parent_group(GroupBase, ok)
    \/ \E set_name \in CreatedNames, group_name \in AllGroups :
           workspace_add_set_to_group(set_name, group_name)
    \/ \E doc \in UiDocs, chosen \in BOOLEAN : ui_import_sets(doc, chosen)

SpecUiImport == Init /\ [][NextUiImport]_vars

\* the buttons and menu entries that make, rename and remove set widgets
ChainSelections == Selections \cup {<<"o1">>}
NextUiSets ==
    \/ \E selection \in Selections : ui_create_set(selection)
    \/ \E selection \in ChainSelections, custom_name \in {"", SetBase} :
           chain_panel_create_chain_set(selection, custom_name)
    \/ \E old_name \in DOMAIN set_widgets, new_name \in {FreshName, SetBase}, ok \in BOOLEAN :
           rename_widget(old_name, new_name, ok)
    \/ \E set_name \in DOMAIN set_widgets, confirmed \in BOOLEAN :
           delete_widget(set_name, confirmed)
    \/ \E doc \in DocsReplace, chosen \in BOOLEAN : ui_import_sets(doc, chosen)

SpecUiSets == Init /\ [][NextUiSets]_vars

\* set widgets dragged about a workspace of nested sets
DropPositions == {<<0, 0>>, <<30, 50>>}
NextDrag ==
    \/ \E doc \in DocsNested : ui_import_sets(doc, TRUE)
    \/ \E set_name \in DOMAIN set_widgets, pos \in DropPositions,
          order \in Orders(DOMAIN set_parents) :
           mouseReleaseEvent(set_name, pos[1], pos[2], order)

SpecDrag == Init /\ [][NextDrag]_vars

\* the two renames, over sets with parents and groups with members
NextRename ==
    \/ CreateSet
    \/ CreateParentGroup
    \/ SetParent(CreatedNames)
    \/ AddSetToGroup(CreatedNames)
    \/ RenameSet(HierNames)
    \/ RenameParentGroup

SpecRename == Init /\ [][NextRename]_vars

\* import_sets of every document into the registries that create_set,
\* set_parent, create_parent_group and add_set_to_group build
NextImport ==
    \/ CreateSet
    \/ SetParent(HierNames)
    \/ CreateParentGroup
    \/ AddSetToGroup(CreatedNames)
    \/ ImportSets(Docs)
    \/ ExportThenImport

SpecImport == Init /\ [][NextImport]_vars

\* ================================================================ claims
\* the sets one parent pointer away from a set of S
ParentsOf(parents, S) == {parents[n] : n \in S \cap DOMAIN parents} \ {None}

\* the sets reached from name by following parent pointers one or more times
RECURSIVE ReachedFrom(_, _, _)
ReachedFrom(parents, frontier, seen) ==
    LET next == ParentsOf(parents, frontier) \ seen
    IN  IF next = {} THEN seen ELSE ReachedFrom(parents, next, seen \cup next)

Ancestors(parents, name) == ReachedFrom(parents, {name}, {})

\* the names listed in some member list of groups
Listed(groups) == UNION {{groups[g][i] : i \in 1..Len(groups[g])} : g \in DOMAIN groups}

\* how often name is listed over all member lists of groups
RECURSIVE Occurrences(_, _)
Occurrences(groups, name) ==
    IF DOMAIN groups = {} THEN 0
    ELSE LET g == CHOOSE x \in DOMAIN groups : TRUE
         IN  Count(groups[g], name) + Occurrences(Del(groups, g), name)

\* C1: in every reachable state no set is reached from itself by following
\* parent pointers one or more times.
C1_ParentsAcyclic ==
    \A n \in DOMAIN sets : n \notin Ancestors(set_parents, n)

\* C2: set_parent(child, parent) on existing sets with parent = child, or with
\* child reached from parent along parent pointers, returns failure and leaves
\* every registry map unchanged.
C2_CycleRejected ==
    ( /\ last.op = "set_parent"
      /\ last.a1 \in DOMAIN pre.sets
      /\ last.a2 \in DOMAIN pre.sets
      /\ (last.a2 = last.a1 \/ last.a1 \in Ancestors(pre.set_parents, last.a2)) )
    => (last.ret = "False" /\ Registry = pre)

\* C3: set_parent(child, parent) on existing sets with child # parent and child
\* not reached from parent returns success, changes only set_parents[child],
\* and afterwards parent is reached from child along parent pointers.
C3_ValidParentAccepted ==
    ( /\ last.op = "set_parent"
      /\ last.a1 \in DOMAIN pre.sets
      /\ last.a2 \in DOMAIN pre.sets
      /\ last.a2 # last.a1
      /\ last.a1 \notin Ancestors(pre.set_parents, last.a2) )
    => ( /\ last.ret = "True"
         /\ Registry = [pre EXCEPT !.set_parents = Put(pre.set_parents, last.a1, last.a2)]
         /\ last.a2 \in Ancestors(set_parents, last.a1) )

\* C4: after delete_set(name) succeeds for a set that was a member of a group,
\* no member list contains name.
C4_DeletedSetLeavesGroups ==
    ( /\ last.op = "delete_set"
      /\ last.ret = "True"
      /\ last.a1 \in Listed(pre.parent_groups) )
    => last.a1 \notin Listed(parent_groups)

\* C5: in every reachable state each set name occurs at most once over all
\* group member lists.
C5_AtMostOneGroup ==
    \A n \in Listed(parent_groups) : Occurrences(parent_groups, n) <= 1

\* C6: add_set_to_group(s, g1) followed by add_set_to_group(s, g2), g1 # g2,
\* both succeeding, leaves s exactly once in g2's list and in no other list, and
\* every other name is listed in each group as it was before the first call.
C6_SecondGroupOnly ==
    [][ ( /\ last.op = "add_set_to_group" /\ last.ret = "True"
          /\ last'.op = "add_set_to_group" /\ last'.ret = "True"
          /\ last'.a1 = last.a1
          /\ last'.a2 # last.a2 )
        => ( /\ Count(parent_groups'[last'.a2], last'.a1) = 1
             /\ Occurrences(parent_groups', last'.a1) = 1
             /\ DOMAIN parent_groups' = DOMAIN pre.parent_groups
             /\ \A g \in DOMAIN pre.parent_groups :
                    SelectSeq(parent_groups'[g], LAMBDA n : n # last'.a1)
                        = SelectSeq(pre.parent_groups[g], LAMBDA n : n # last'.a1) )
      ]_vars

\* the name a reference to a set has after rename_set(old_name, new_name)
Renamed(ref, old_name, new_name) == IF ref = old_name THEN new_name ELSE ref

\* C7: after rename_set(X, Y) succeeds every parent pointer that was X is Y,
\* every member list that contained X contains Y, the objects, position, color,
\* size, transparency and parent pointer of X are stored under Y, and X is no
\* key of a set map, no parent pointer and in no member list.
C7_RenameLeavesNoReference ==
    ( last.op = "rename_set" /\ last.ret = "True" )
    => LET X == last.a1
           Y == last.a2
       IN  /\ \A c \in DOMAIN pre.set_parents :
                 pre.set_parents[c] = X => Get(set_parents, Renamed(c, X, Y)) = Y
           /\ \A g \in DOMAIN pre.parent_groups :
                 InList(pre.parent_groups[g], X)
                    => g \in DOMAIN parent_groups /\ InList(parent_groups[g], Y)
           /\ Y \in DOMAIN sets /\ sets[Y] = pre.sets[X]
           /\ Get(set_positions, Y) = Get(pre.set_positions, X)
           /\ Get(set_colors, Y) = Get(pre.set_colors, X)
           /\ Get(set_sizes, Y) = Get(pre.set_sizes, X)
           /\ Get(set_transparency, Y) = Get(pre.set_transparency, X)
           /\ Get(set_parents, Y) = Renamed(Get(pre.set_parents, X), X, Y)
           /\ X \notin DOMAIN sets \cup DOMAIN set_positions \cup DOMAIN set_colors
                    \cup DOMAIN set_sizes \cup DOMAIN set_transparency
                    \cup DOMAIN set_parents
           /\ \A c \in DOMAIN set_parents : set_parents[c] # X
           /\ X \notin Listed(parent_groups)

\* C8: delete_set(name) removes only the entry name: every other set keeps its
\* objects and visual properties, the sets whose parent pointer was name have
\* the parent pointer None, and the other parent pointers are unchanged.
C8_DeleteOrphansChildren ==
    ( last.op = "delete_set" /\ last.ret = "True" )
    => LET name == last.a1
           rest == DOMAIN pre.sets \ {name}
       IN  /\ sets = Restrict(pre.sets, rest)
           /\ set_positions = Restrict(pre.set_positions, rest)
           /\ set_colors = Restrict(pre.set_colors, rest)
           /\ set_sizes = Restrict(pre.set_sizes, rest)
           /\ set_transparency = Restrict(pre.set_transparency, rest)
           /\ DOMAIN set_parents = DOMAIN pre.set_parents \ {name}
           /\ \A c \in DOMAIN set_parents :
                 set_parents[c] = IF pre.set_parents[c] = name THEN None
                                  ELSE pre.set_parents[c]

\* a set with a child has been deleted
C8_Witness ==
    /\ last.op = "delete_set" /\ last.ret = "True"
    /\ \E c \in DOMAIN pre.set_parents \ {last.a1} :
          /\ pre.set_parents[c] = last.a1
          /\ c \in DOMAIN sets
          /\ set_parents[c] = None

\* C9: delete_parent_group(g) removes only g and its four property entries:
\* the sets, their properties and parent pointers are unchanged, the other
\* groups are unchanged, and no former member of g is in a group afterwards.
C9_DeleteGroupKeepsSets ==
    ( last.op = "delete_parent_group" /\ last.ret = "True" )
    => LET g == last.a1
           rest == DOMAIN pre.parent_groups \ {g}
       IN  /\ Registry = [pre EXCEPT
                    !.parent_groups = Restrict(@, rest),
                    !.group_positions = Restrict(@, rest),
                    !.group_colors = Restrict(@, rest),
                    !.group_sizes = Restrict(@, rest),
                    !.group_transparency = Restrict(@, rest)]
           /\ \A i \in 1..Len(pre.parent_groups[g]) :
                 pre.parent_groups[g][i] \in DOMAIN pre.sets
                    => /\ pre.parent_groups[g][i] \in DOMAIN sets
                       /\ pre.parent_groups[g][i] \notin Listed(parent_groups)

\* C10: whenever import_sets returns failure every registry map is as it was
\* before the call.
C10_FailedImportChangesNothing ==
    ( last.op = "import_sets" /\ last.ret = "False" ) => Registry = pre

\* the names listed in the "sets" field of doc that have an object in the scene
KeptSets(doc) ==
    {n \in DOMAIN doc.sets : \E i \in 1..Len(doc.sets[n]) : doc.sets[n][i] \in SceneObjects}

\* the keys and the names referred to in the set maps and member lists
SetNamesIn(reg) ==
    DOMAIN reg.sets \cup DOMAIN reg.set_positions \cup DOMAIN reg.set_colors
        \cup DOMAIN reg.set_sizes \cup DOMAIN reg.set_transparency
        \cup DOMAIN reg.set_parents
        \cup ({reg.set_parents[n] : n \in DOMAIN reg.set_parents} \ {None})
        \cup Listed(reg.parent_groups)

\* the keys of the group maps
GroupNamesIn(reg) ==
    DOMAIN reg.parent_groups \cup DOMAIN reg.group_positions \cup DOMAIN reg.group_colors
        \cup DOMAIN reg.group_sizes \cup DOMAIN reg.group_transparency

\* C11: after a successful import_sets the sets are exactly the sets of the
\* document that have an object in the scene, each holding its existing objects
\* in document order, the groups are exactly the groups of the document, and no
\* set or group of the registry before the import that the document does not
\* list is left in any registry map.
C11_ImportReplaces ==
    ( last.op = "import_sets" /\ last.ret = "True" )
    => LET doc == DocById(last.a1)
       IN  /\ DOMAIN sets = KeptSets(doc)
           /\ \A n \in KeptSets(doc) :
                 sets[n] = SelectSeq(doc.sets[n], LAMBDA o : o \in SceneObjects)
           /\ DOMAIN parent_groups = DOMAIN doc.parent_groups
           /\ \A n \in SetNamesIn(pre) \ DOMAIN doc.sets : n \notin SetNamesIn(Registry)
           /\ \A g \in GroupNamesIn(pre) \ DOMAIN doc.parent_groups :
                 g \notin GroupNamesIn(Registry)

\* an import has replaced a set and a group the document does not list, has
\* dropped a set whose objects are all gone and has filtered another
C11_Witness ==
    /\ last.op = "import_sets" /\ last.ret = "True"
    /\ DOMAIN pre.sets \ DOMAIN DocById(last.a1).sets # {}
    /\ DOMAIN pre.parent_groups \ DOMAIN DocById(last.a1).parent_groups # {}
    /\ DOMAIN DocById(last.a1).sets \ DOMAIN sets # {}
    /\ \E n \in DOMAIN sets : Len(sets[n]) < Len(DocById(last.a1).sets[n])

\* C12: when every object of every set exists in the scene, export_sets to a
\* file followed by import_sets of that file leaves the same set names, the same
\* ordered object list for each set and the same parent pointer for each set, an
\* absent pointer counting as None.
C12_RoundTrip ==
    ( /\ last.op = "export_sets;import_sets"
      /\ last.a2 = "True"
      /\ \A n \in DOMAIN pre.sets : \A i \in 1..Len(pre.sets[n]) :
            pre.sets[n][i] \in SceneObjects )
    => ( /\ last.ret = "True"
         /\ sets = pre.sets
         /\ \A n \in DOMAIN pre.sets : Get(set_parents, n) = Get(pre.set_parents, n) )

\* the parent pointers and group members of doc that name no imported set
DanglingParents(doc, all_sets) ==
    {doc.parents[n] : n \in DOMAIN doc.parents} \ ({None} \cup DOMAIN all_sets)
DanglingMembers(doc, all_sets) == Listed(doc.parent_groups) \ DOMAIN all_sets

\* C13: after a successful import_sets every parent pointer is None or names
\* an imported set and every member list names imported sets only; an import of
\* a document whose fields are all objects succeeds, whatever missing or
\* filtered-out sets its parents and member lists refer to.
C13_ImportDropsDangling ==
    ( last.op = "import_sets" )
    => LET doc == DocById(last.a1)
       IN  /\ (doc.file = "object" /\ doc.bad = {}) => last.ret = "True"
           /\ last.ret = "True"
                => /\ \A n \in DOMAIN set_parents :
                         n \in DOMAIN sets /\ set_parents[n] \in {None} \cup DOMAIN sets
                   /\ Listed(parent_groups) \subseteq DOMAIN sets

\* a document that names a filtered-out set as a parent and as a group member
\* has been imported
C13_Witness ==
    /\ last.op = "import_sets" /\ last.ret = "True"
    /\ DanglingParents(DocById(last.a1), sets) # {}
    /\ DanglingMembers(DocById(last.a1), sets) # {}
    /\ DOMAIN sets # {} /\ DOMAIN parent_groups # {}

\* C14: get_all_objects_in_set_hierarchy(name) and select_set(name) return for
\* every name in every reachable state: the recursion never goes deeper than
\* the number of sets.
C14_FlattenTerminates ==
    last.op \in {"get_all_objects_in_set_hierarchy", "select_set"}
        => last.ret # "RecursionError"

\* no key of parents is reached from itself along parent pointers
Forest(parents) == \A n \in DOMAIN parents : n \notin Ancestors(parents, n)

\* the sets from which name is reached along parent pointers
Descendants(parents, name) == {d \in DOMAIN parents : name \in Ancestors(parents, d)}

\* the elements of a list
Elements(l) == {l[i] : i \in 1..Len(l)}

\* the summed length of the object lists of the sets in S
RECURSIVE TotalLen(_, _)
TotalLen(all_sets, S) ==
    IF S = {} THEN 0
    ELSE LET n == CHOOSE x \in S : TRUE
         IN  Len(all_sets[n]) + TotalLen(all_sets, S \ {n})

CalledWithMissingName ==
    \/ /\ last.op \in {"rename_set", "delete_set", "update_set_position",
                        "update_set_size", "update_set_color", "update_set_transparency"}
       /\ last.a1 \notin DOMAIN pre.sets
    \/ /\ last.op = "set_parent"
       /\ \/ last.a1 \notin DOMAIN pre.sets
          \/ last.a2 # None /\ last.a2 \notin DOMAIN pre.sets
    \/ /\ last.op = "add_set_to_group"
       /\ (last.a1 \notin DOMAIN pre.sets \/ last.a2 \notin DOMAIN pre.parent_groups)
    \/ /\ last.op = "remove_set_from_group"
       /\ \/ last.a1 \notin DOMAIN pre.sets
          \/ last.a2 # None /\ last.a2 \notin DOMAIN pre.parent_groups
    \/ /\ last.op \in {"rename_parent_group", "delete_parent_group",
                        "update_group_position", "update_group_size",
                        "update_group_color", "update_group_transparency"}
       /\ last.a1 \notin DOMAIN pre.parent_groups

\* C16: a mutator called with a set or group name that is not in the registry
\* returns failure and leaves every registry map unchanged.
C16_MissingNameFails ==
    CalledWithMissingName => (last.ret = "False" /\ Registry = pre)

\* C17: rename_set(old, new) with new a set name and rename_parent_group(old,
\* new) with new a group name, new = old included, return failure and leave
\* every registry map unchanged.
C17_TakenNameFails ==
    ( \/ last.op = "rename_set" /\ last.a2 \in DOMAIN pre.sets
      \/ last.op = "rename_parent_group" /\ last.a2 \in DOMAIN pre.parent_groups )
    => (last.ret = "False" /\ Registry = pre)

\* a set has been renamed to the name of another set, whose entry differs
C17_Witness ==
    /\ last.op = "rename_set"
    /\ last.a1 \in DOMAIN pre.sets /\ last.a2 \in DOMAIN pre.sets
    /\ last.a1 # last.a2
    /\ pre.set_positions[last.a1] # pre.set_positions[last.a2]
    /\ last.ret = "False"

\* the channels whose flag is on
EnabledChannels == {c \in Channels : active_channels[c]}

\* the attribute paths of object obj over the enabled channels that exist
EnabledPaths(obj) == {obj \o "." \o c : c \in EnabledChannels} \cap SceneAttrs

\* the last call was select_objects_with_channel_filtering on a non-empty list
\* and no call to maya.cmds raised
Filtered ==
    /\ last.op = "select_objects_with_channel_filtering"
    /\ last.a2 = "nothing"
    /\ out.objects # <<>>

\* the flags are neither all on nor all off
MixedFilter == Cardinality(EnabledChannels) \notin {0, Cardinality(Channels)}

\* the argument of the last cmds.select call of a non-empty sequence of calls
\* that has one
FinalSelection(host) ==
    LET selects == {i \in 1..Len(host) : host[i].cmd \in {"select", "select(clear=True)"}}
    IN  host[CHOOSE i \in selects : \A j \in selects : j <= i].args

\* the number of paths selected and the number of objects that contributed
\* one, over the given objects
PathCount(objects) ==
    Cardinality({<<i, p>> \in (1..Len(objects)) \X SceneAttrs : p \in EnabledPaths(objects[i])})
ContributorCount(objects) ==
    Cardinality({i \in 1..Len(objects) : EnabledPaths(objects[i]) # {}})

\* C18: with a mixed filter that selects a path, the feedback reports the
\* number of selected attribute paths and the number of objects that
\* contributed a selected path: tx only over [o1, o2], where only o1 has tx,
\* selects [o1.tx] and reports 1 channel on 1 object.
C18_FeedbackCounts ==
    ( Filtered /\ MixedFilter /\ PathCount(out.objects) > 0 )
    => /\ Len(FinalSelection(out.host)) = PathCount(out.objects)
       /\ \E i \in 1..Len(out.host) :
             out.host[i] = InViewMessage("Selected " \o ToString(PathCount(out.objects))
                             \o " channels on " \o ToString(ContributorCount(out.objects))
                             \o " objects")

\* C19: with a mixed filter the selection ends as exactly the existing paths
\* object + suffix over the given objects and the enabled channels; when no
\* such path exists it ends as the given objects and a warning is emitted.
C19_MixedFilterSelection ==
    ( Filtered /\ MixedFilter )
    => IF PathCount(out.objects) > 0
       THEN /\ Elements(FinalSelection(out.host))
                  = UNION {EnabledPaths(out.objects[i]) : i \in 1..Len(out.objects)}
            /\ Len(FinalSelection(out.host)) = PathCount(out.objects)
       ELSE /\ FinalSelection(out.host) = out.objects
            /\ \E i \in 1..Len(out.host) : out.host[i].cmd = "warning"

\* C20: with all six flags on or all six off the only call made is
\* cmds.select of the given objects: no attribute path, no clearing first.
C20_UnfilteredSelection ==
    ( Filtered /\ ~MixedFilter ) => out.host = <<Select(out.objects)>>

\* objects have been selected while every flag was off
C20_Witness ==
    /\ Filtered
    /\ EnabledChannels = {}
    /\ Len(out.objects) = 2
    /\ out.host # <<>>

\* the objects of the set the last call named and of its descendants that
\* exist in the scene
ExistingInSubtree ==
    UNION {Elements(sets[d]) \cap SceneObjects :
             d \in ({last.a1} \cup Descendants(set_parents, last.a1)) \cap DOMAIN sets}

\* the attribute paths of the objects of S
PathsOf(S) == {p \in SceneAttrs : \E o \in S, c \in Channels : p = o \o "." \o c}

C21_WitnessNoneLeft ==
    /\ last.op = "select_set"
    /\ last.a1 \in DOMAIN sets
    /\ last.ret = "False"
    /\ Len(out.host) = 1
    /\ out.host[1].cmd = "warning"
\* C22: in every reachable state the four property dicts of the sets have
\* exactly the keys of sets, and the four property dicts of the groups have
\* exactly the keys of parent_groups.
C22_PropertyKeys ==
    /\ \A keys \in {DOMAIN set_positions, DOMAIN set_colors, DOMAIN set_sizes,
                     DOMAIN set_transparency} : keys = DOMAIN sets
    /\ \A keys \in {DOMAIN group_positions, DOMAIN group_colors, DOMAIN group_sizes,
                     DOMAIN group_transparency} : keys = DOMAIN parent_groups
\* name when it is not taken, and otherwise name_k for the smallest k >= 1
\* with name_k not taken
SmallestFree(name, taken) ==
    IF name \notin taken THEN name
    ELSE Suffixed(name, CHOOSE k \in 1..(Cardinality(taken) + 1) :
                            /\ Suffixed(name, k) \notin taken
                            /\ \A j \in 1..(k - 1) : Suffixed(name, j) \in taken)

\* the entries the set dicts had before the last call are as they were
SetsKept ==
    /\ Restrict(sets, DOMAIN pre.sets) = pre.sets
    /\ Restrict(set_positions, DOMAIN pre.set_positions) = pre.set_positions
    /\ Restrict(set_colors, DOMAIN pre.set_colors) = pre.set_colors
    /\ Restrict(set_sizes, DOMAIN pre.set_sizes) = pre.set_sizes
    /\ Restrict(set_transparency, DOMAIN pre.set_transparency) = pre.set_transparency
    /\ Restrict(set_parents, DOMAIN pre.set_parents) = pre.set_parents

\* the entries the group dicts had before the last call are as they were
GroupsKept ==
    /\ Restrict(parent_groups, DOMAIN pre.parent_groups) = pre.parent_groups
    /\ Restrict(group_positions, DOMAIN pre.group_positions) = pre.group_positions
    /\ Restrict(group_colors, DOMAIN pre.group_colors) = pre.group_colors
    /\ Restrict(group_sizes, DOMAIN pre.group_sizes) = pre.group_sizes
    /\ Restrict(group_transparency, DOMAIN pre.group_transparency) = pre.group_transparency

C24_WalkTerminates ==
    last.op = "set_parent" => last.ret # "hang"
\* C25: right after create_set has returned a name, no member list holds
\* that name, the parent pointer of the new set is None, and no set has the
\* new set as its parent.
C25_CreatedSetIsFresh ==
    (last.op = "create_set" /\ last.ret # None) =>
        /\ last.ret \notin Listed(parent_groups)
        /\ set_parents[last.ret] = None
        /\ \A m \in DOMAIN set_parents : set_parents[m] # last.ret
\* C30: after rename_set(X, Y) succeeds every member list is the list it was
\* with Y in the places of X: Y stands where X stood, the other members keep
\* their places, and a list without X is unchanged.
C30_RenameKeepsOrder ==
    ( last.op = "rename_set" /\ last.ret = "True" )
    => /\ DOMAIN parent_groups = DOMAIN pre.parent_groups
       /\ \A g \in DOMAIN pre.parent_groups :
             parent_groups[g] =
                 [i \in 1..Len(pre.parent_groups[g]) |->
                     Renamed(pre.parent_groups[g][i], last.a1, last.a2)]
\* C26: every group widget tracks as children exactly the sets that the
\* member list of its group holds.
C26_ChildWidgetsAreMembers ==
    \A g \in DOMAIN group_widgets :
        /\ g \in DOMAIN parent_groups
        /\ group_widgets[g] = Elements(parent_groups[g])
\* the document the last Import Sets was given
ImportedDoc == CHOOSE d \in UiDocs : d.id = last.a1

\* C27: after Import Sets has succeeded the member lists are those that
\* import_sets of the manager made of the document, in the same order, and
\* every member of every group is a child of the widget of that group.
C27_RebuildKeepsMembers ==
    ( last.op = "SelectionSetUI.import_sets" /\ last.ret = "True" )
    => /\ parent_groups = ImportResult(ImportedDoc, pre).reg.parent_groups
       /\ \A g \in DOMAIN parent_groups :
             /\ g \in DOMAIN group_widgets
             /\ Elements(parent_groups[g]) \subseteq group_widgets[g]
\* the rectangle of widget c lay within the rectangle of widget p before
\* the last call
InsideBefore(c, p) ==
    \A i \in 1..2 :
        /\ pre_widgets[p].pos[i] <= pre_widgets[c].pos[i]
        /\ pre_widgets[c].pos[i] + pre_widgets[c].size[i]
              <= pre_widgets[p].pos[i] + pre_widgets[p].size[i]

\* the sets that are carried along with set P: the children of P that lay
\* inside P before the last call, and the children of carried sets that
\* lay inside them
RECURSIVE CarriedFrom(_, _)
CarriedFrom(P, S) ==
    LET next == {c \in DOMAIN pre_widgets \cap DOMAIN pre.set_parents :
                    /\ pre.set_parents[c] \in S \cup {P}
                    /\ InsideBefore(c, pre.set_parents[c])}
    IN  IF next \subseteq S THEN S ELSE CarriedFrom(P, S \cup next)

\* C28: when a set widget has been dragged and released, every child widget
\* that lay inside it, and recursively every child that lay inside a moved
\* child, is displaced as the dragged widget was, and the registry holds
\* the new position of each.
C28_ChildrenFollowParent ==
    last.op = "DraggableSetWidget.mouseReleaseEvent"
    => \A c \in CarriedFrom(last.a1, {}) \ {last.a1} :
          /\ \A i \in 1..2 :
                set_widgets[c].pos[i] =
                    pre_widgets[c].pos[i]
                        + (set_widgets[last.a1].pos[i] - pre_widgets[last.a1].pos[i])
          /\ set_positions[c] = set_widgets[c].pos
\* C29: after any sequence of Create Set, Create Chain Set, rename,
\* confirmed delete and import, the keys of set_widgets are the names of
\* the sets of the registry: every set has a widget and every widget a set.
C29_WidgetsAreSets == DOMAIN set_widgets = DOMAIN sets
====
